---- MODULE Spec2Model ----
(***************************************************************************)
(* Reward assignment of the reinforcement-learning gateway (history.js):   *)
(* the rewarded-decision builder and its single-pass join, the history     *)
(* loader with its message-id deduplication and consolidation, the         *)
(* assignRewards worker, and the dispatcher of worker invocations.         *)
(*                                                                         *)
(* Times are milliseconds since the epoch, as Date.getTime() gives them;   *)
(* a record's timestamp field is modelled by the second it names, and is   *)
(* converted to milliseconds where the code parses it.                     *)
(***************************************************************************)
EXTENDS Integers, Sequences, FiniteSets, Bags, TLC

VARIABLES
    \* The builder on one history-id group.
    bpc,        \* "input" before the group is built, "built" after
    bHistoryId, \* the key of the group (historyId)
    bRecords,   \* the history records of the group, in input order
    bResult,    \* what getRewardedDecisionsForHistoryRecords returned
    \* The object store, for one project and shard.
    history,        \* history objects: key -> the records of the object
    extraBytes,     \* bytes of the first history object beyond its records
    incoming,       \* incoming markers, each named by its history key
    rewarded,       \* rewarded-decision objects: key -> the lines written
    pendingDeletes, \* deleteAllKeys calls of history keys nobody waits for, a bag
    reshardInvocations, \* calls of shard.invokeReshardLambda
    \* One assignRewards invocation after the other.
    wpc,            \* where the running invocation stands
    wResults,       \* how the invocations so far ended
    wListing,       \* the two listings: history metadata, incoming keys
    wRead,          \* key -> records of the object read so far
    wObjects,       \* key -> the content the read of the object returns
    wEmitted,       \* key -> records its callback returned
    wMessageIds,    \* messageIds
    wDuplicates,    \* duplicates
    wPathsDone,     \* date paths whose records are loaded and consolidated
    wFailed,        \* the reads and the consolidations that have failed
    wPendingWrites, \* rewarded-decision writes in flight: key -> lines
    wIssued,        \* buffersByS3Key as the invocation built it
    wMarked,        \* the invocation updated the last-processed date itself
    wOrphans,       \* loaders and writes earlier invocations left in flight
    projectDomainModelCache, \* the model cache of the worker process
    \* The dispatcher.
    dpc,             \* "running" while the promise of the latest invocation is pending
    dForce,          \* event.force_processing of every invocation started
    dWorkerCount,    \* process.env.REWARD_ASSIGNMENT_WORKER_COUNT
    clock,           \* the time now: what new Date() returns, in milliseconds
    dShape,          \* project -> its shards, their classes, its incoming shards
    registry,        \* project -> shard -> last-processed time
    dProject,        \* invocation -> project -> where its chain stands
    dPendingMarks,   \* updateShardLastProcessed calls in flight
    dPendingInvokes, \* lambda.invoke calls in flight
    dRequested,      \* the lambda.invoke calls of the invocations, in order
    dEnqueued,       \* the worker events that were delivered
    dResults,        \* how the invocations so far ended
    dGrants,         \* every worker invocation so far: project, shard, time
    \* ingestion
    ingest           \* where the ingestion of one history object stands

builderVars == <<bpc, bHistoryId, bRecords, bResult>>

storeVars == <<history, extraBytes, incoming, rewarded, pendingDeletes, reshardInvocations>>

loaderVars == <<wRead, wObjects, wEmitted, wMessageIds, wDuplicates, wPathsDone, wFailed>>

workerVars == <<wpc, wResults, wListing, loaderVars, wPendingWrites, wIssued, wMarked,
                wOrphans, projectDomainModelCache>>

dispatchVars == <<dpc, dForce, dWorkerCount, clock, dShape, registry, dProject,
                  dPendingMarks, dPendingInvokes, dRequested, dEnqueued, dResults,
                  dGrants>>

ingestVars == <<ingest>>

otherVars == <<dispatchVars, builderVars, ingestVars>>

nonDispatchVars == <<builderVars, ingestVars, storeVars, workerVars>>

vars == <<builderVars, storeVars, workerVars, dispatchVars, ingestVars>>

(***************************************************************************)
(* Bounds of the model.                                                    *)
(***************************************************************************)
MaxTime == 3                 \* record timestamps are seconds 0..MaxTime
RewardWindowInSeconds == 2   \* customize.config.rewardWindowInSeconds
MaxGroup == 3                \* history records in one history-id group

(***************************************************************************)
(* JavaScript values.                                                      *)
(***************************************************************************)
\* A JSON number or boolean, as the value of a rewards mapping.
JsNum(n) == [t |-> "num", n |-> n, b |-> FALSE]
JsBool(b) == [t |-> "bool", n |-> 0, b |-> b]

\* Number(v): booleans become 1 and 0.
NumberOf(v) == IF v.t = "bool" THEN (IF v.b THEN 1 ELSE 0) ELSE v.n

\* A timestamp field: a second >= 0, or
NoTimestamp == -2            \* the field is missing
BadTimestamp == -1           \* the field is a string that is no date
NaN == -1                    \* what getTime() gives for an invalid Date

\* new Date(timestamp).getTime()
ParseDate(ts) == IF ts >= 0 THEN ts * 1000 ELSE NaN

Min(S) == CHOOSE m \in S : \A n \in S : m <= n

SeqSum(s) == LET RECURSIVE go(_)
                 go(i) == IF i > Len(s) THEN 0 ELSE s[i] + go(i + 1)
             IN go(1)

SeqToSet(s) == {s[i] : i \in 1..Len(s)}

(***************************************************************************)
(* Objects.  The builder mutates the parsed records in place, and the same *)
(* object may be pushed to both lists, so records live in a heap indexed   *)
(* by object id: <<i, 0>> is the i-th history record of the group and      *)
(* <<i, j>> its j-th embedded decision.                                    *)
(***************************************************************************)
RecordId(i) == <<i, 0>>
EmbeddedId(i, j) == <<i, j>>

\* The parsed object of history record r (fields the builder reads or sets).
RecordObject(r) ==
    [type |-> r.type, timestamp |-> r.timestamp, timestampDate |-> NaN,
     message_id |-> r.message_id, history_id |-> r.history_id, chosen |-> r.chosen,
     domain |-> r.domain,
     reward_key |-> r.reward_key, hasReward |-> FALSE, reward |-> 0,
     rewardsKind |-> r.rewardsKind, rewards |-> r.rewards,
     rewardWindowEndDate |-> NaN]

\* The parsed object of an embedded decision e: it has no fields of the
\* enclosing record until the builder sets them.
EmbeddedObject(e) ==
    [type |-> "none", timestamp |-> NoTimestamp, timestampDate |-> NaN,
     message_id |-> "", history_id |-> "", chosen |-> "A", domain |-> "",
     reward_key |-> e.reward_key, hasReward |-> FALSE, reward |-> 0,
     rewardsKind |-> "absent", rewards |-> <<>>,
     rewardWindowEndDate |-> NaN]

HeapIds(records) ==
    {RecordId(i) : i \in 1..Len(records)} \cup
    UNION {{EmbeddedId(i, j) : j \in 1..Len(records[i].decisions)} : i \in 1..Len(records)}

InitialHeap(records) ==
    [id \in HeapIds(records) |->
        IF id[2] = 0 THEN RecordObject(records[id[1]])
        ELSE EmbeddedObject(records[id[1]].decisions[id[2]])]

(***************************************************************************)
(* customize.js: the hooks of the builder.                                 *)
(***************************************************************************)
\* customize.decisionRecordsFromHistoryRecord(projectName, historyRecord,
\* inferredDecisionRecords): the hook returns the inferred decision records.
decisionRecordsFromHistoryRecord(inferred) == inferred

\* The rewards hook returns the history record itself when it has a truthy
\* rewards property, and nothing otherwise.
rewardsRecordFromHistoryRecord(obj) == obj.rewardsKind # "absent"

\* naming.isObjectNotArray
isObjectNotArray(kind) == kind = "object"

(***************************************************************************)
(* assignRewardsToDecisions                                                *)
(***************************************************************************)
\* decisionRecords.concat(rewardsRecords).sort(by timestampDate): the sort
\* is stable, so records of one timestamp keep the order of the
\* concatenation.
RECURSIVE SortByTimestampDate(_, _)
SortByTimestampDate(heap, ids) ==
    IF ids = <<>> THEN <<>>
    ELSE LET t == Min({heap[ids[i]].timestampDate : i \in 1..Len(ids)})
         IN SelectSeq(ids, LAMBDA id : heap[id].timestampDate = t) \o
            SortByTimestampDate(heap, SelectSeq(ids, LAMBDA id : heap[id].timestampDate # t))

\* The reward key a decision listens on.
RewardKeyOf(obj) == IF obj.reward_key # "" THEN obj.reward_key ELSE "reward"

\* record.timestampDate.getTime() + rewardWindowInSeconds * 1000
RewardWindowEndDate(timestampDate) == timestampDate + RewardWindowInSeconds * 1000

\* A listener is expired for a rewards record at time t.
ExpiredMutant(endDate, t) == endDate <= t
Expired(endDate, t) == endDate < t

\* listener.reward = (listener.reward || 0) + Number(reward)
AddReward(obj, value) ==
    [obj EXCEPT !.hasReward = TRUE,
                !.reward = (IF obj.hasReward THEN obj.reward ELSE 0) + NumberOf(value)]

\* The backwards loop over the listeners of one reward key: expired
\* listeners are removed, the others are credited.
ApplyReward(heap, listeners, value, t) ==
    [heap |-> [id \in DOMAIN heap |->
                  IF id \in SeqToSet(listeners) /\ ~Expired(heap[id].rewardWindowEndDate, t)
                  THEN AddReward(heap[id], value) ELSE heap[id]],
     listeners |-> SelectSeq(listeners, LAMBDA id : ~Expired(heap[id].rewardWindowEndDate, t))]

\* decisionRecordsByRewardKey is a plain object: a key no decision has
\* registered still reads as a member of Object.prototype when it names
\* one.  The members, with the length of the inherited value (NoLength: it
\* has none).
NoLength == -1
ObjectPrototype ==
    ("constructor" :> 1) @@ ("hasOwnProperty" :> 1) @@ ("isPrototypeOf" :> 1)
    @@ ("propertyIsEnumerable" :> 1) @@ ("toString" :> 0) @@ ("valueOf" :> 0)
    @@ ("toLocaleString" :> 0) @@ ("__defineGetter__" :> 2) @@ ("__defineSetter__" :> 2)
    @@ ("__lookupGetter__" :> 1) @@ ("__lookupSetter__" :> 1) @@ ("__proto__" :> NoLength)

\* decisionRecordsByRewardKey[rewardKey] is an inherited value, not a list
\* of listeners.
Inherited(byKey, k) == k \notin DOMAIN byKey /\ k \in DOMAIN ObjectPrototype

\* Object.entries(record.rewards): the keys in insertion order; the records
\* of the model list their keys in this order.
RewardKeys == <<"reward", "k1", "constructor", "toString">>
Entries(rewards) == SelectSeq(RewardKeys, LAMBDA k : k \in DOMAIN rewards)

\* All entries of record.rewards, one key after the other.  On an inherited
\* value the backwards loop runs from its length: listeners[i] is undefined
\* and reading its rewardWindowEndDate throws.
RECURSIVE ApplyRewards(_, _, _, _)
ApplyRewards(heap, byKey, id, keys) ==
    IF keys = <<>> THEN [error |-> FALSE, heap |-> heap, byKey |-> byKey]
    ELSE LET k == Head(keys)
         IN IF Inherited(byKey, k)
            THEN IF ObjectPrototype[k] >= 1
                 THEN [error |-> TRUE, heap |-> heap, byKey |-> byKey]
                 ELSE ApplyRewards(heap, byKey, id, Tail(keys))
            ELSE LET r == IF k \in DOMAIN byKey
                          THEN ApplyReward(heap, byKey[k], heap[id].rewards[k],
                                           heap[id].timestampDate)
                          ELSE [heap |-> heap, listeners |-> <<>>]
                     byKey2 == IF k \in DOMAIN byKey
                               THEN [byKey EXCEPT ![k] = r.listeners] ELSE byKey
                 IN ApplyRewards(r.heap, byKey2, id, Tail(keys))

\* The pass over sortedRecords from position i on; byKey is
\* decisionRecordsByRewardKey.
RECURSIVE JoinFrom(_, _, _, _)
JoinFrom(heap, byKey, sorted, i) ==
    IF i > Len(sorted) THEN [error |-> FALSE, heap |-> heap]
    ELSE LET id == sorted[i]
             obj == heap[id]
         IN CASE obj.type = "decision" ->
                   LET k == RewardKeyOf(obj)
                       old == IF k \in DOMAIN byKey THEN byKey[k] ELSE <<>>
                       heap2 == [heap EXCEPT ![id].rewardWindowEndDate =
                                     RewardWindowEndDate(obj.timestampDate)]
                   IN IF Inherited(byKey, k)
                      THEN [error |-> TRUE, heap |-> heap2]   \* listeners.push is no function
                      ELSE JoinFrom(heap2,
                                    [x \in DOMAIN byKey \cup {k} |->
                                        IF x = k THEN Append(old, id) ELSE byKey[x]],
                                    sorted, i + 1)
              [] obj.type = "rewards" ->
                   LET r == ApplyRewards(heap, byKey, id, Entries(obj.rewards))
                   IN IF r.error THEN [error |-> TRUE, heap |-> r.heap]
                      ELSE JoinFrom(r.heap, r.byKey, sorted, i + 1)
              [] OTHER -> [error |-> TRUE, heap |-> heap]

assignRewardsToDecisions(heap, decisionRecords, rewardsRecords) ==
    IF rewardsRecords = <<>> THEN [error |-> FALSE, heap |-> heap]
    ELSE JoinFrom(heap, <<>>, SortByTimestampDate(heap, decisionRecords \o rewardsRecords), 1)

(***************************************************************************)
(* getRewardedDecisionsForHistoryRecords                                   *)
(***************************************************************************)
\* The decision records inferred from history record i: the record itself
\* when it has type "decision"; otherwise its embedded decisions.  For a
\* record of type "decision" the result of concat is dropped.
InferredDecisionRecords(records, i) ==
    IF records[i].type = "decision" THEN <<RecordId(i)>>
    ELSE IF records[i].decisionsKind = "array"
         THEN [j \in 1..Len(records[i].decisions) |-> EmbeddedId(i, j)]
         ELSE <<>>

\* `${messageId}-${i}` for every decision after the first (i from 0).
DecisionMessageId(messageId, i) ==
    IF i = 0 THEN messageId ELSE messageId \o "-" \o ToString(i)

\* What the loop over newDecisionRecords sets on the decision objects.
MarkDecisions(heap, ids, historyId, r) ==
    [id \in DOMAIN heap |->
        IF \E n \in 1..Len(ids) : ids[n] = id
        THEN LET n == CHOOSE n \in 1..Len(ids) : ids[n] = id
             IN [heap[id] EXCEPT !.type = "decision",
                                 !.timestamp = r.timestamp,
                                 !.timestampDate = ParseDate(r.timestamp),
                                 !.message_id = DecisionMessageId(r.message_id, n - 1),
                                 !.history_id = historyId]
        ELSE heap[id]]

\* What the builder sets on a rewards record.
MarkRewards(heap, id, r) ==
    [heap EXCEPT ![id].type = "rewards",
                 ![id].timestampDate = ParseDate(r.timestamp)]

\* The checks of one history record that throw.
RecordThrows(historyId, r) ==
    \/ historyId # r.history_id
    \/ r.timestamp = NoTimestamp
    \/ ParseDate(r.timestamp) = NaN
    \/ r.message_id = ""
    \/ ~r.messageIdIsString
    \/ r.decisionsKind = "other"
    \/ (r.rewardsKind # "absent" /\ ~isObjectNotArray(r.rewardsKind))

\* The loop over the history records of the group, from record i on.
RECURSIVE BuildFrom(_, _, _, _, _, _)
BuildFrom(historyId, records, i, heap, decisionRecords, rewardsRecords) ==
    IF i > Len(records)
    THEN [error |-> FALSE, heap |-> heap,
          decisionRecords |-> decisionRecords, rewardsRecords |-> rewardsRecords]
    ELSE IF RecordThrows(historyId, records[i])
    THEN [error |-> TRUE, heap |-> heap,
          decisionRecords |-> decisionRecords, rewardsRecords |-> rewardsRecords]
    ELSE LET r == records[i]
             new == decisionRecordsFromHistoryRecord(InferredDecisionRecords(records, i))
             heap2 == MarkDecisions(heap, new, historyId, r)
             isRewards == rewardsRecordFromHistoryRecord(heap2[RecordId(i)])
             heap3 == IF isRewards THEN MarkRewards(heap2, RecordId(i), r) ELSE heap2
         IN BuildFrom(historyId, records, i + 1, heap3,
                      decisionRecords \o new,
                      IF isRewards THEN Append(rewardsRecords, RecordId(i))
                      ELSE rewardsRecords)

\* The result: error (the builder threw), or the decision records (ids, in
\* the order returned) with the heap that holds their fields.
getRewardedDecisionsForHistoryRecords(historyId, records) ==
    LET b == BuildFrom(historyId, records, 1, InitialHeap(records), <<>>, <<>>)
        j == assignRewardsToDecisions(b.heap, b.decisionRecords, b.rewardsRecords)
    IN IF b.error THEN [error |-> TRUE, heap |-> b.heap, decisionRecords |-> <<>>,
                        rewardsRecords |-> <<>>]
       ELSE [error |-> j.error, heap |-> j.heap,
             decisionRecords |-> b.decisionRecords, rewardsRecords |-> b.rewardsRecords]

(***************************************************************************)
(* The builder on its own: a history-id group is drawn, then built.        *)
(***************************************************************************)
HistoryRecord(ts, mid, type, key, dkind, decs, rkind, rew) ==
    [timestamp |-> ts, message_id |-> mid, messageIdIsString |-> TRUE,
     history_id |-> "h", chosen |-> "A", domain |-> "", type |-> type, reward_key |-> key,
     decisionsKind |-> dkind, decisions |-> decs,
     rewardsKind |-> rkind, rewards |-> rew]

\* The shapes of a history record with message id mid: decisions early in
\* the group's time, rewards records at every second (numbers and booleans,
\* one or two keys), a record that is a decision and carries rewards,
\* records with embedded decisions, and a record whose timestamp is no date.
RecordShapes(mid) ==
    {HistoryRecord(0, mid, "decision", key, "absent", <<>>, "absent", <<>>) :
        key \in {"", "k1"}}
    \cup {HistoryRecord(ts, mid, "rewards", "", "absent", <<>>, "object",
                        ("reward" :> JsNum(2))) : ts \in 0..MaxTime}
    \cup {HistoryRecord(ts, mid, "rewards", "", "absent", <<>>, "object",
                        ("reward" :> JsBool(TRUE)) @@ ("k1" :> JsNum(2))) :
             ts \in {RewardWindowInSeconds, MaxTime}}
    \cup {HistoryRecord(1, mid, "decision", "", "absent", <<>>, "absent", <<>>),
          HistoryRecord(1, mid, "rewards", "", "absent", <<>>, "object",
                        ("reward" :> JsBool(FALSE))),
          HistoryRecord(1, mid, "decision", "", "absent", <<>>, "object",
                        ("reward" :> JsNum(2))),
          HistoryRecord(0, mid, "none", "", "array",
                        <<[reward_key |-> ""], [reward_key |-> "k1"]>>, "absent", <<>>),
          HistoryRecord(0, mid, "none", "", "array",
                        <<[reward_key |-> ""]>>, "object", ("reward" :> JsNum(2))),
          HistoryRecord(0, mid, "decision", "", "array",
                        <<[reward_key |-> ""]>>, "absent", <<>>),
          HistoryRecord(BadTimestamp, mid, "decision", "", "absent", <<>>, "absent", <<>>)}

\* Records whose reward key names a member of Object.prototype.
PrototypeKeyShapes(mid) ==
    {HistoryRecord(0, mid, "decision", "toString", "absent", <<>>, "absent", <<>>),
     HistoryRecord(1, mid, "rewards", "", "absent", <<>>, "object",
                   ("constructor" :> JsNum(2))),
     HistoryRecord(1, mid, "rewards", "", "absent", <<>>, "object",
                   ("reward" :> JsNum(2)) @@ ("toString" :> JsNum(2)))}

MessageIdOf(i) == "m" \o ToString(i)

\* Groups of two records, one of them with such a reward key.
PrototypeKeyGroups ==
    {g \in [1..2 -> UNION {RecordShapes(MessageIdOf(i)) \cup PrototypeKeyShapes(MessageIdOf(i)) :
                              i \in 1..2}] :
        /\ \A i \in 1..2 : g[i].message_id = MessageIdOf(i)
        /\ \E i \in 1..2 : g[i] \in PrototypeKeyShapes(MessageIdOf(i))}

\* A message id of a history record that has the form of a derived one: any
\* non-empty string is accepted as message_id.
DerivedLikeId == MessageIdOf(1) \o "-1"

\* Groups of two records with distinct message ids, one of which reads
\* like the id derived for a further decision of the other.
DerivedLikeGroups ==
    {g \in [1..2 -> RecordShapes(MessageIdOf(1)) \cup RecordShapes(DerivedLikeId)] :
        g[1].message_id # g[2].message_id}

Groups ==
    UNION {{g \in [1..n -> UNION {RecordShapes(MessageIdOf(i)) : i \in 1..n}] :
               \A i \in 1..n : g[i].message_id = MessageIdOf(i)} : n \in 1..MaxGroup}
    \cup DerivedLikeGroups \cup PrototypeKeyGroups

\* The parts of the state a specification does not use stay as they are here.
BuilderOff ==
    /\ bpc = "off"
    /\ bHistoryId = ""
    /\ bRecords = <<>>
    /\ bResult = [error |-> FALSE, heap |-> <<>>, decisionRecords |-> <<>>,
                  rewardsRecords |-> <<>>]

StoreOff ==
    /\ history = <<>>
    /\ extraBytes = 0
    /\ incoming = {}
    /\ rewarded = <<>>
    /\ pendingDeletes = EmptyBag
    /\ reshardInvocations = 0
    /\ ingest = "off"

WorkerOff ==
    /\ wpc = "off"
    /\ wResults = <<>>
    /\ wListing = [history |-> <<>>, historyDone |-> FALSE,
                   incoming |-> {}, incomingDone |-> FALSE]
    /\ wRead = <<>>
    /\ wObjects = <<>>
    /\ wEmitted = <<>>
    /\ wMessageIds = {}
    /\ wDuplicates = 0
    /\ wPathsDone = {}
    /\ wFailed = [keys |-> {}, paths |-> {}]
    /\ wPendingWrites = <<>>
    /\ wIssued = <<>>
    /\ wMarked = FALSE
    /\ wOrphans = <<>>
    /\ projectDomainModelCache = [has |-> FALSE, domain |-> "", model |-> ""]

DispatchOff ==
    /\ dpc = "off"
    /\ dForce = <<>>
    /\ dWorkerCount = 1
    /\ clock = 0
    /\ dShape = <<>>
    /\ registry = <<>>
    /\ dProject = <<>>
    /\ dPendingMarks = {}
    /\ dPendingInvokes = {}
    /\ dRequested = <<>>
    /\ dEnqueued = {}
    /\ dResults = <<>>
    /\ dGrants = {}

BuilderInit ==
    /\ bpc = "input"
    /\ bHistoryId = "h"
    /\ bRecords \in Groups
    /\ bResult = [error |-> FALSE, heap |-> <<>>, decisionRecords |-> <<>>,
                  rewardsRecords |-> <<>>]
    /\ StoreOff
    /\ WorkerOff
    /\ DispatchOff

Build ==
    /\ bpc = "input"
    /\ bpc' = "built"
    /\ bResult' = getRewardedDecisionsForHistoryRecords(bHistoryId, bRecords)
    /\ UNCHANGED <<bHistoryId, bRecords, storeVars, workerVars, dispatchVars, ingestVars>>

BuilderNext == Build

SpecBuilder == BuilderInit /\ [][BuilderNext]_vars

(***************************************************************************)
(* Claims about the builder and the join.                                  *)
(***************************************************************************)
Built == bpc = "built" /\ ~bResult.error

\* The indices of the history records of the group that yield a rewards
\* record.
RewardsRecordIndices == {i \in 1..Len(bRecords) : bRecords[i].rewardsKind = "object"}

\* The group without the rewards mapping of record i.
WithoutRewards(i) ==
    [bRecords EXCEPT ![i].rewardsKind = "absent", ![i].rewards = <<>>]

\* The reward of decision d when record i carries no rewards (0 if absent).
ResultWithout(i) == getRewardedDecisionsForHistoryRecords(bHistoryId, WithoutRewards(i))

RewardValue(obj) == IF obj.hasReward THEN obj.reward ELSE 0

SameReward(a, b) == a.hasReward = b.hasReward /\ RewardValue(a) = RewardValue(b)

\* How often record i stands in the sequence the join walks.
Occurrences(i) ==
    Cardinality({n \in 1..Len(bResult.decisionRecords) :
                    bResult.decisionRecords[n] = RecordId(i)})
    + Cardinality({n \in 1..Len(bResult.rewardsRecords) :
                    bResult.rewardsRecords[n] = RecordId(i)})

\* The sum the specification gives for decision d: every rewards record of
\* the group that carries d's reward key inside [d.timestamp, d.timestamp + W),
\* once.
RECURSIVE WindowSum(_, _)
WindowSum(d, I) ==
    IF I = {} THEN 0
    ELSE LET i == CHOOSE x \in I : TRUE
             k == RewardKeyOf(bResult.heap[d])
             t == ParseDate(bRecords[i].timestamp)
             in == /\ k \in DOMAIN bRecords[i].rewards
                   /\ bResult.heap[d].timestampDate <= t
                   /\ t < bResult.heap[d].timestampDate + RewardWindowInSeconds * 1000
         IN (IF in THEN NumberOf(bRecords[i].rewards[k]) ELSE 0) + WindowSum(d, I \ {i})

\* C1: every decision the builder returns has no reward, or the sum of the
\* values under its reward key of the rewards records of its history id
\* with d.timestamp <= r.timestamp < d.timestamp + W, each counted once.
C1_RewardIsWindowSum ==
    Built =>
        \A d \in SeqToSet(bResult.decisionRecords) :
            bResult.heap[d].hasReward =>
                bResult.heap[d].reward = WindowSum(d, RewardsRecordIndices)

\* C2 as stated: a rewards record at exactly d.timestamp + W that carries
\* d's reward key leaves d.reward as it is without that record.
C2_EndExcluded ==
    Built =>
        \A d \in SeqToSet(bResult.decisionRecords) : \A i \in RewardsRecordIndices :
            (/\ ParseDate(bRecords[i].timestamp)
                    = bResult.heap[d].timestampDate + RewardWindowInSeconds * 1000
             /\ RewardKeyOf(bResult.heap[d]) \in DOMAIN bRecords[i].rewards)
            => SameReward(bResult.heap[d], ResultWithout(i).heap[d])

\* C2, amended: the window is closed at its end.  For a decision d that the
\* join registers as a listener, a rewards record at exactly
\* d.timestamp + W that carries d's reward key is added to d.reward (once
\* for each time the record stands in the sequence the join walks), and a
\* rewards record later than d.timestamp + W leaves d.reward unchanged.
C2_EndIncluded ==
    Built =>
        \A d \in SeqToSet(bResult.decisionRecords) : \A i \in RewardsRecordIndices :
            LET obj == bResult.heap[d]
                k == RewardKeyOf(obj)
                t == ParseDate(bRecords[i].timestamp)
                end == obj.timestampDate + RewardWindowInSeconds * 1000
            IN (obj.type = "decision" /\ k \in DOMAIN bRecords[i].rewards) =>
                 /\ t = end =>
                      /\ obj.hasReward
                      /\ obj.reward = RewardValue(ResultWithout(i).heap[d])
                                      + Occurrences(i) * NumberOf(bRecords[i].rewards[k])
                 /\ t > end => SameReward(obj, ResultWithout(i).heap[d])

\* A decision registered by the join and a rewards record with its reward
\* key exactly at the end of its window, and another one past it.
C2_Witness ==
    /\ Built
    /\ \E d \in SeqToSet(bResult.decisionRecords) : \E i, j \in RewardsRecordIndices :
          LET obj == bResult.heap[d]
              k == RewardKeyOf(obj)
              end == obj.timestampDate + RewardWindowInSeconds * 1000
          IN /\ obj.type = "decision"
             /\ k \in DOMAIN bRecords[i].rewards
             /\ k \in DOMAIN bRecords[j].rewards
             /\ ParseDate(bRecords[i].timestamp) = end
             /\ ParseDate(bRecords[j].timestamp) > end
             /\ obj.hasReward

\* C3: a rewards record of another history record of the group, with the
\* timestamp of decision d and d's reward key, is added to d.reward,
\* whatever the order of the two records in the input.
C3_TieCreditsDecision ==
    Built =>
        \A d \in SeqToSet(bResult.decisionRecords) : \A i \in RewardsRecordIndices :
            LET obj == bResult.heap[d]
                k == RewardKeyOf(obj)
            IN (/\ d[1] # i
                /\ ParseDate(bRecords[i].timestamp) = obj.timestampDate
                /\ k \in DOMAIN bRecords[i].rewards)
               => /\ obj.hasReward
                  /\ obj.reward = RewardValue(ResultWithout(i).heap[d])
                                  + NumberOf(bRecords[i].rewards[k])

\* C11: every record of the decision list the builder returns has type
\* "decision" when the join runs, a timestamp that parses to a valid date,
\* and a reward that is absent or a number, for every record shape of the
\* data model.
C11_DecisionsWellFormed ==
    Built =>
        \A n \in 1..Len(bResult.decisionRecords) :
            LET obj == bResult.heap[bResult.decisionRecords[n]]
            IN /\ obj.type = "decision"
               /\ obj.timestampDate # NaN
               /\ obj.timestampDate = ParseDate(obj.timestamp)
               /\ obj.hasReward => obj.reward \in Int

\* The case of C11: a built group with a record of type "decision" that
\* also carries a rewards mapping.
C11_Case ==
    /\ Built
    /\ \E i \in 1..Len(bRecords) :
          /\ bRecords[i].type = "decision"
          /\ bRecords[i].rewardsKind = "object"
          /\ RecordId(i) \in SeqToSet(bResult.decisionRecords)

\* What C12 counts as the input decisions of the group, from record i on in
\* input order: each record of type "decision" and each element of every
\* embedded decisions array (the builder infers InferredDecisionRecords).
RECURSIVE InputDecisions(_, _)
InputDecisions(records, i) ==
    IF i > Len(records) THEN <<>>
    ELSE (IF records[i].type = "decision" THEN <<RecordId(i)>> ELSE <<>>)
         \o (IF records[i].decisionsKind = "array"
             THEN [j \in 1..Len(records[i].decisions) |-> EmbeddedId(i, j)]
             ELSE <<>>)
         \o InputDecisions(records, i + 1)

\* C12: for a group in which no record yields a rewards record, the
\* builder returns exactly one decision per input decision, in input order,
\* and none of them has reward set.
C12_OneDecisionPerInput ==
    (Built /\ RewardsRecordIndices = {}) =>
        /\ bResult.decisionRecords = InputDecisions(bRecords, 1)
        /\ \A d \in SeqToSet(bResult.decisionRecords) : ~bResult.heap[d].hasReward

\* The case of C12: a built group without rewards records that holds
\* decisions of type "decision" and embedded ones.
C12_Case ==
    /\ Built
    /\ RewardsRecordIndices = {}
    /\ \E d, e \in SeqToSet(bResult.decisionRecords) : d[2] = 0 /\ e[2] > 0

\* The decisions of the returned list that come from history record i.
DecisionsOfRecord(i) ==
    SelectSeq(bResult.decisionRecords, LAMBDA d : d[1] = i)

\* C17: a history record of type "decision" with an embedded decisions
\* array of k elements yields k + 1 decisions, the record itself followed
\* by the k embedded decisions, with message ids m, m-1, ..., m-k.
C17_RecordAndEmbedded ==
    Built =>
        \A i \in 1..Len(bRecords) :
            (bRecords[i].type = "decision" /\ bRecords[i].decisionsKind = "array") =>
                LET k == Len(bRecords[i].decisions)
                    ds == DecisionsOfRecord(i)
                IN /\ Len(ds) = k + 1
                   /\ \A n \in 1..Len(ds) :
                        /\ ds[n] = <<i, n - 1>>
                        /\ bResult.heap[ds[n]].message_id
                              = DecisionMessageId(bRecords[i].message_id, n - 1)

\* The case of C17: a built group with a record of type "decision" that
\* has an embedded decisions array.
C17_Case ==
    /\ Built
    /\ \E i \in 1..Len(bRecords) :
          /\ bRecords[i].type = "decision"
          /\ bRecords[i].decisionsKind = "array"
          /\ Len(bRecords[i].decisions) > 0

\* C21: the decisions returned for a group have pairwise distinct message
\* ids: the record's id for its first decision and id-i for its i-th
\* further one never meet each other nor the id of another history record
\* (the records of a group have distinct message ids after deduplication).
C21_DistinctMessageIds ==
    Built =>
        \A m, n \in 1..Len(bResult.decisionRecords) :
            m # n => bResult.heap[bResult.decisionRecords[m]].message_id
                        # bResult.heap[bResult.decisionRecords[n]].message_id

\* The case of C21: a built group of records with distinct message ids that
\* returns a derived id (a second decision of one record) next to a
\* decision of another record.
C21_Case ==
    /\ Built
    /\ \A i, j \in 1..Len(bRecords) : i # j => bRecords[i].message_id # bRecords[j].message_id
    /\ \E d, e \in SeqToSet(bResult.decisionRecords) :
          /\ d[2] = 2
          /\ e[1] # d[1]
          /\ bResult.heap[d].message_id = DecisionMessageId(bRecords[d[1]].message_id, 1)

(***************************************************************************)
(* The object store of one project and shard.                              *)
(***************************************************************************)
MaxRuns == 2                 \* assignRewards invocations in one behaviour
WorkerMaxPayloadInMB == 1    \* REWARD_ASSIGNMENT_WORKER_MAX_PAYLOAD_IN_MB

EmptyMap == [x \in {} |-> x]

\* A history key: its date path and its name under the path.
HistoryKey(path, name) == [path |-> path, name |-> name]

\* The history keys of the shard, in the order a listing returns them.
AllHistoryKeys ==
    <<HistoryKey("p1", "a"), HistoryKey("p1", "b"), HistoryKey("p1", "cons"),
      HistoryKey("p2", "a")>>

\* naming.getConsolidatedHistoryS3Key: the canonical key of the date path.
getConsolidatedHistoryS3Key(key) == HistoryKey(key.path, "cons")

\* The stored size of a record; four of them fill the payload of a worker.
RecordBytes == (WorkerMaxPayloadInMB * 1024 * 1024) \div 4

\* The Size a listing gives for a history object.
ObjectSize(key) ==
    Len(history[key]) * RecordBytes + (IF key = AllHistoryKeys[1] THEN extraBytes ELSE 0)

\* naming.listAllHistoryShardS3KeysMetadata
listAllHistoryShardS3KeysMetadata ==
    LET keys == SelectSeq(AllHistoryKeys, LAMBDA k : k \in DOMAIN history)
    IN [n \in 1..Len(keys) |-> [Key |-> keys[n], Size |-> ObjectSize(keys[n])]]

\* naming.listAllIncomingHistoryShardS3Keys
listAllIncomingHistoryShardS3Keys == incoming

(***************************************************************************)
(* assignRewards: the listings and the size check.                         *)
(***************************************************************************)
filterStaleHistoryS3KeysMetadata(historyS3Keys, incomingHistoryS3Keys) == historyS3Keys

StaleS3KeysMetadata == filterStaleHistoryS3KeysMetadata(wListing.history, wListing.incoming)

TotalSize == SeqSum([n \in 1..Len(StaleS3KeysMetadata) |-> StaleS3KeysMetadata[n].Size])

\* The stale history is too large for one worker.
TooLargeMutant(totalSize) == totalSize >= WorkerMaxPayloadInMB * 1024 * 1024
TooLarge(totalSize) == totalSize > WorkerMaxPayloadInMB * 1024 * 1024

\* The keys the loader reads, in order.
StaleKeys == [n \in 1..Len(StaleS3KeysMetadata) |-> StaleS3KeysMetadata[n].Key]

(***************************************************************************)
(* loadAndConsolidateHistoryRecords.  The reads, callbacks and writes of a *)
(* loader go on when the promise of its invocation has been rejected, so   *)
(* the operators below take the loader they work on: the one of the latest *)
(* invocation, or one an earlier invocation left behind.                   *)
(***************************************************************************)
\* naming.groupHistoryS3KeysByDatePath: the date paths in the order of their
\* first key, and the keys of one path in order.
RECURSIVE DatePaths(_)
DatePaths(keys) ==
    IF keys = <<>> THEN <<>>
    ELSE <<keys[1].path>> \o
         DatePaths(SelectSeq(Tail(keys), LAMBDA k : k.path # keys[1].path))

\* The loader of the latest invocation.
Loader ==
    [keys |-> SelectSeq(StaleKeys, LAMBDA k : k \in DOMAIN wRead),
     read |-> wRead, objects |-> wObjects, emitted |-> wEmitted,
     messageIds |-> wMessageIds, duplicates |-> wDuplicates,
     pathsDone |-> wPathsDone, failed |-> wFailed, writes |-> wPendingWrites]

PathKeysOf(c, path) == SelectSeq(c.keys, LAMBDA k : k.path = path)

PathS3Keys(path) == SelectSeq(StaleKeys, LAMBDA k : k.path = path)

\* The callback of processCompressedJsonLines drops the record.
IsDuplicateMutant(messageIds, record) == record.message_id = ""
IsDuplicate(messageIds, record) == record.message_id = "" \/ record.message_id \in messageIds

\* The object is read to its end: every record of the content its read
\* returned has gone through the callback.
ReadToEndOf(c, key) == key \in DOMAIN c.objects /\ c.read[key] = Len(c.objects[key])

ReadToEnd(key) == ReadToEndOf(Loader, key)

\* The read of the object is in flight.
Reading(c, key) ==
    /\ key \in DOMAIN c.read
    /\ key \notin c.failed.keys
    /\ ~ReadToEndOf(c, key)

\* The next callback of the read can run: the store has served the request,
\* or serves it now.
CanRead(c, key) == Reading(c, key) /\ (key \in DOMAIN c.objects \/ key \in DOMAIN history)

\* The loader after the next callback of the read of key.  The content of
\* the object is the one the store held when it served the request.
AfterRead(c, key) ==
    LET objects == IF key \in DOMAIN c.objects THEN c.objects
                   ELSE (key :> history[key]) @@ c.objects
        served == [c EXCEPT !.objects = objects]
    IN IF objects[key] = <<>> THEN served
       ELSE LET record == objects[key][c.read[key] + 1]
            IN IF IsDuplicate(c.messageIds, record)
               THEN [served EXCEPT !.read[key] = @ + 1, !.duplicates = @ + 1]
               ELSE [served EXCEPT !.read[key] = @ + 1,
                                   !.messageIds = @ \cup {record.message_id},
                                   !.emitted[key] = Append(@, record)]

\* The loader after the read of key has failed.
AfterReadFails(c, key) == [c EXCEPT !.failed.keys = @ \cup {key}]

RECURSIVE Flat(_)
Flat(seqs) == IF seqs = <<>> THEN <<>> ELSE seqs[1] \o Flat(Tail(seqs))

\* all.flat() of one date path: the records its keys returned, in key order.
PathRecordsOf(c, path) ==
    LET keys == PathKeysOf(c, path) IN Flat([n \in 1..Len(keys) |-> c.emitted[keys[n]]])

PathRecords(path) == PathRecordsOf(Loader, path)

\* The promise of the date path is rejected: a read of the path or the
\* write of its consolidated object has failed.
PathFailed(c, path) ==
    \/ path \in c.failed.paths
    \/ \E n \in 1..Len(PathKeysOf(c, path)) : PathKeysOf(c, path)[n] \in c.failed.keys

PathReadOf(c, path) ==
    \A n \in 1..Len(PathKeysOf(c, path)) : ReadToEndOf(c, PathKeysOf(c, path)[n])

PathRead(path) == PathReadOf(Loader, path)

\* The write of the consolidated object of the path is in flight.
Consolidating(c, path) ==
    /\ path \in SeqToSet(DatePaths(c.keys))
    /\ Len(PathKeysOf(c, path)) > 1
    /\ path \notin c.pathsDone
    /\ ~PathFailed(c, path)
    /\ PathReadOf(c, path)

AfterConsolidate(c, path) == [c EXCEPT !.pathsDone = @ \cup {path}]

AfterConsolidateFails(c, path) == [c EXCEPT !.failed.paths = @ \cup {path}]

\* A request of the loader or a write of the invocation is in flight.
InFlight(c) ==
    \/ \E key \in DOMAIN c.read : Reading(c, key)
    \/ \E path \in SeqToSet(DatePaths(c.keys)) : Consolidating(c, path)
    \/ DOMAIN c.writes # {}

\* The promise of a date path is resolved: one object read to its end, or
\* several consolidated.
PathLoaded(path) ==
    IF Len(PathS3Keys(path)) = 1 THEN ReadToEnd(PathS3Keys(path)[1]) ELSE path \in wPathsDone

\* The records loadAndConsolidateHistoryRecords returns.
LoadedRecords ==
    LET paths == DatePaths(StaleKeys)
    IN Flat([n \in 1..Len(paths) |-> PathRecords(paths[n])])

(***************************************************************************)
(* The records of the pass to rewarded decisions and their objects.        *)
(***************************************************************************)
\* customize.modifyHistoryRecords(projectName, historyRecords): the hook
\* returns the records.
modifyHistoryRecords(historyRecords) == historyRecords

\* The array index a property name is the canonical form of, or NoIndex.
MaxArrayIndex == 10
NoIndex == -1
ArrayIndex(name) ==
    IF \E n \in 0..MaxArrayIndex : ToString(n) = name
    THEN CHOOSE n \in 0..MaxArrayIndex : ToString(n) = name
    ELSE NoIndex

\* The values of the history_id property in the order of their first record.
RECURSIVE FirstRecordOrder(_)
FirstRecordOrder(records) ==
    IF records = <<>> THEN <<>>
    ELSE <<records[1].history_id>> \o
         FirstRecordOrder(SelectSeq(Tail(records),
                                    LAMBDA r : r.history_id # records[1].history_id))

RECURSIVE AscendingIndices(_)
AscendingIndices(names) ==
    IF names = <<>> THEN <<>>
    ELSE LET least == CHOOSE x \in SeqToSet(names) :
                         \A y \in SeqToSet(names) : ArrayIndex(x) <= ArrayIndex(y)
         IN <<least>> \o AscendingIndices(SelectSeq(names, LAMBDA x : x # least))

\* Object.entries(_.groupBy(records, 'history_id')): the keys of a plain
\* object, array indices first in ascending order, then the other keys in
\* the order of insertion.
HistoryIds(records) ==
    LET ids == FirstRecordOrder(records)
    IN AscendingIndices(SelectSeq(ids, LAMBDA x : ArrayIndex(x) # NoIndex))
       \o SelectSeq(ids, LAMBDA x : ArrayIndex(x) = NoIndex)

HistoryRecordsOf(records, historyId) ==
    SelectSeq(records, LAMBDA r : r.history_id = historyId)

\* customize.modifyRewardedDecision(projectName, rewardedDecision): the hook
\* returns the rewarded decision.
modifyRewardedDecision(rewardedDecision) == rewardedDecision

\* _.pick of the fields of a rewarded decision, then the hook (the date goes
\* with the result for the key of its object).
finalizeRewardedDecision(obj) ==
    modifyRewardedDecision(
        [chosen |-> obj.chosen, domain |-> obj.domain, timestamp |-> obj.timestamp,
         message_id |-> obj.message_id, history_id |-> obj.history_id,
         hasReward |-> obj.hasReward,
         reward |-> IF obj.hasReward THEN obj.reward ELSE 0,
         timestampDate |-> obj.timestampDate])

\* naming.assertValidRewardedDecision holds: the chosen variant is required.
ValidRewardedDecision(rd) == rd.chosen # ""

\* The rewarded decisions of one group.
GroupDecisions(records, historyId) ==
    LET g == getRewardedDecisionsForHistoryRecords(historyId, HistoryRecordsOf(records, historyId))
    IN [n \in 1..Len(g.decisionRecords) |-> finalizeRewardedDecision(g.heap[g.decisionRecords[n]])]

GroupThrows(records, historyId) ==
    getRewardedDecisionsForHistoryRecords(historyId, HistoryRecordsOf(records, historyId)).error

\* The for loop over the groups: a builder that throws ends it.
BuilderThrows(records) ==
    \E n \in 1..Len(HistoryIds(records)) : GroupThrows(records, HistoryIds(records)[n])

RewardedDecisions(records) ==
    LET ids == HistoryIds(records)
    IN Flat([n \in 1..Len(ids) |-> GroupDecisions(records, ids[n])])

\* naming.getRewardedDecisionS3Key: model and day of the decision.
DayMillis == 2 * 1000
getRewardedDecisionS3Key(model, timestampDate) ==
    [model |-> model, day |-> timestampDate \div DayMillis]

\* naming.getModelForDomain: the project has one model.
namingGetModelForDomain(domain) == "default"

\* The property name a domain is looked up under; a record without domain
\* has the domain undefined.
DomainKey(domain) == IF domain = "" THEN "undefined" ELSE domain

\* What reading a member of Object.prototype gives where a model name is
\* expected.
InheritedValue(name) == "Object.prototype." \o name

\* projectDomainModelCache[projectName] before the first call.
NoCache == [has |-> FALSE, domain |-> "", model |-> ""]

\* getModelForDomain: the model of the domain and the cache after the call.
\* The cache of the project is a plain object that holds the domain looked
\* up last; a domain that names a member of Object.prototype reads as
\* cached once the project has a cache.
getModelForDomain(cache, domain) ==
    IF cache.has /\ DomainKey(domain) = cache.domain
    THEN [model |-> cache.model, cache |-> cache]
    ELSE IF cache.has /\ DomainKey(domain) \in DOMAIN ObjectPrototype
    THEN [model |-> InheritedValue(DomainKey(domain)), cache |-> cache]
    ELSE [model |-> namingGetModelForDomain(domain),
          cache |-> [has |-> TRUE, domain |-> DomainKey(domain),
                     model |-> namingGetModelForDomain(domain)]]

\* The loop of writeRewardedDecisions from decision n on: the key of every
\* decision, and the cache after the loop.
RECURSIVE KeysFrom(_, _, _)
KeysFrom(cache, decisions, n) ==
    IF n > Len(decisions) THEN [keys |-> <<>>, cache |-> cache]
    ELSE LET g == getModelForDomain(cache, decisions[n].domain)
             rest == KeysFrom(g.cache, decisions, n + 1)
         IN [keys |-> <<getRewardedDecisionS3Key(g.model, decisions[n].timestampDate)>>
                        \o rest.keys,
             cache |-> rest.cache]

\* The key a decision gets with the cache as it is now.
RewardedKeyOf(rd) ==
    getRewardedDecisionS3Key(getModelForDomain(projectDomainModelCache, rd.domain).model,
                             rd.timestampDate)

\* A line of a rewarded-decision object.
Line(rd) ==
    [chosen |-> rd.chosen, domain |-> rd.domain, timestamp |-> rd.timestamp,
     message_id |-> rd.message_id, history_id |-> rd.history_id,
     hasReward |-> rd.hasReward, reward |-> rd.reward]

\* buffersByS3Key: for every key the lines of its decisions, in order.
BuffersByS3Key(cache, decisions) ==
    LET keys == KeysFrom(cache, decisions, 1).keys
    IN [k \in SeqToSet(keys) |->
           LET mine == SelectSeq([n \in 1..Len(decisions) |-> n], LAMBDA n : keys[n] = k)
           IN [m \in 1..Len(mine) |-> Line(decisions[mine[m]])]]

(***************************************************************************)
(* assignRewards, step by step.  Every action is one callback of the       *)
(* handler or the completion of one request.                               *)
(***************************************************************************)
\* The invocation ends: its promise resolves or rejects.
End(outcome) ==
    /\ wpc' = "idle"
    /\ wResults' = Append(wResults, outcome)
    /\ wMarked' = FALSE

\* The promise is rejected if it is still pending: a request of the loader
\* or a write may fail after the invocation has been rejected.
Reject(outcome) ==
    IF wpc = "idle" THEN UNCHANGED <<wpc, wResults, wMarked>> ELSE End(outcome)

SetLoader(c) ==
    /\ wRead' = c.read
    /\ wObjects' = c.objects
    /\ wEmitted' = c.emitted
    /\ wMessageIds' = c.messageIds
    /\ wDuplicates' = c.duplicates
    /\ wPathsDone' = c.pathsDone
    /\ wFailed' = c.failed

NoFailure == [keys |-> {}, paths |-> {}]

\* An event without project_name or shard_id is rejected.
RejectEvent ==
    /\ wpc = "idle"
    /\ Len(wResults) < MaxRuns
    /\ End("rejected")
    /\ UNCHANGED <<otherVars, storeVars, wListing, loaderVars, wPendingWrites, wIssued,
                   wOrphans, projectDomainModelCache>>

\* The handler starts.  What the invocation before has left in flight goes
\* on beside it.  Unless the event says the dispatcher did, the handler
\* updates the last-processed date of the shard first.
StartWorker(lastProcessedTimestampUpdated) ==
    /\ wpc = "idle"
    /\ Len(wResults) < MaxRuns
    /\ wOrphans' = IF InFlight(Loader) THEN Append(wOrphans, Loader) ELSE wOrphans
    /\ wpc' = IF lastProcessedTimestampUpdated THEN "listing" ELSE "marking"
    /\ wMarked' = FALSE
    /\ wListing' = [history |-> <<>>, historyDone |-> FALSE,
                    incoming |-> {}, incomingDone |-> FALSE]
    /\ wRead' = EmptyMap
    /\ wObjects' = EmptyMap
    /\ wEmitted' = EmptyMap
    /\ wMessageIds' = {}
    /\ wDuplicates' = 0
    /\ wPathsDone' = {}
    /\ wFailed' = NoFailure
    /\ wPendingWrites' = EmptyMap
    /\ wIssued' = EmptyMap
    /\ UNCHANGED <<otherVars, storeVars, wResults, projectDomainModelCache>>

\* shard.updateShardLastProcessed resolves: the listings are started.
UpdateLastProcessedSucceeds ==
    /\ wpc = "marking"
    /\ wpc' = "listing"
    /\ wMarked' = TRUE
    /\ UNCHANGED <<otherVars, storeVars, wResults, wListing, loaderVars, wPendingWrites,
                   wIssued, wOrphans, projectDomainModelCache>>

\* It rejects: the invocation rejects and nothing is listed.
UpdateLastProcessedFails ==
    /\ wpc = "marking"
    /\ End("mark-error")
    /\ UNCHANGED <<otherVars, storeVars, wListing, loaderVars, wPendingWrites, wIssued,
                   wOrphans, projectDomainModelCache>>

\* The two listings run concurrently.
ListHistory ==
    /\ wpc = "listing"
    /\ ~wListing.historyDone
    /\ wListing' = [wListing EXCEPT !.history = listAllHistoryShardS3KeysMetadata,
                                    !.historyDone = TRUE]
    /\ UNCHANGED <<otherVars, storeVars, wpc, wResults, loaderVars, wPendingWrites, wIssued,
                   wMarked, wOrphans, projectDomainModelCache>>

ListIncoming ==
    /\ wpc = "listing"
    /\ ~wListing.incomingDone
    /\ wListing' = [wListing EXCEPT !.incoming = listAllIncomingHistoryShardS3Keys,
                                    !.incomingDone = TRUE]
    /\ UNCHANGED <<otherVars, storeVars, wpc, wResults, loaderVars, wPendingWrites, wIssued,
                   wMarked, wOrphans, projectDomainModelCache>>

ListFails ==
    /\ wpc = "listing"
    /\ ~(wListing.historyDone /\ wListing.incomingDone)
    /\ End("list-error")
    /\ UNCHANGED <<otherVars, storeVars, wListing, loaderVars, wPendingWrites, wIssued,
                   wOrphans, projectDomainModelCache>>

Listed == wpc = "listing" /\ wListing.historyDone /\ wListing.incomingDone

\* The stale history is too large: shard.invokeReshardLambda is called and
\* the invocation settles as that call does.
Reshard ==
    /\ Listed
    /\ TooLarge(TotalSize)
    /\ reshardInvocations' = reshardInvocations + 1
    /\ wpc' = "resharding"
    /\ UNCHANGED <<otherVars, history, extraBytes, incoming, rewarded, pendingDeletes,
                   wResults, wListing, loaderVars, wPendingWrites, wIssued, wMarked,
                   wOrphans, projectDomainModelCache>>

ReshardSucceeds ==
    /\ wpc = "resharding"
    /\ End("resharded")
    /\ UNCHANGED <<otherVars, storeVars, wListing, loaderVars, wPendingWrites, wIssued,
                   wOrphans, projectDomainModelCache>>

ReshardFails ==
    /\ wpc = "resharding"
    /\ End("reshard-error")
    /\ UNCHANGED <<otherVars, storeVars, wListing, loaderVars, wPendingWrites, wIssued,
                   wOrphans, projectDomainModelCache>>

\* Otherwise the reads of all stale objects are started.
StartLoading ==
    /\ Listed
    /\ ~TooLarge(TotalSize)
    /\ wpc' = "loading"
    /\ wRead' = [k \in SeqToSet(StaleKeys) |-> 0]
    /\ wEmitted' = [k \in SeqToSet(StaleKeys) |-> <<>>]
    /\ UNCHANGED <<otherVars, storeVars, wResults, wListing, wObjects, wMessageIds,
                   wDuplicates, wPathsDone, wFailed, wPendingWrites, wIssued, wMarked,
                   wOrphans, projectDomainModelCache>>

\* The callback of the next record of one object.
ReadRecord(key) ==
    /\ CanRead(Loader, key)
    /\ SetLoader(AfterRead(Loader, key))
    /\ UNCHANGED <<otherVars, storeVars, wpc, wResults, wListing, wPendingWrites, wIssued,
                   wMarked, wOrphans, projectDomainModelCache>>

\* The read of an object fails (the object may be gone): the promise of its
\* date path is rejected, and the invocation with it.
ReadFails(key) ==
    /\ Reading(Loader, key)
    /\ SetLoader(AfterReadFails(Loader, key))
    /\ Reject("read-error")
    /\ UNCHANGED <<otherVars, storeVars, wListing, wPendingWrites, wIssued, wOrphans,
                   projectDomainModelCache>>

\* A date path of several objects: its records are written to the
\* consolidated object, then deleteAllKeys is called on the objects read
\* and nobody waits for it.
ConsolidatePath(path) ==
    /\ Consolidating(Loader, path)
    /\ history' = (getConsolidatedHistoryS3Key(PathS3Keys(path)[1]) :> PathRecords(path))
                  @@ history
    /\ pendingDeletes' = pendingDeletes (+) SetToBag({SeqToSet(PathS3Keys(path))})
    /\ SetLoader(AfterConsolidate(Loader, path))
    /\ UNCHANGED <<otherVars, extraBytes, incoming, rewarded, reshardInvocations, wpc,
                   wResults, wListing, wPendingWrites, wIssued, wMarked, wOrphans,
                   projectDomainModelCache>>

ConsolidateFails(path) ==
    /\ Consolidating(Loader, path)
    /\ SetLoader(AfterConsolidateFails(Loader, path))
    /\ Reject("consolidate-error")
    /\ UNCHANGED <<otherVars, storeVars, wListing, wPendingWrites, wIssued, wOrphans,
                   projectDomainModelCache>>

\* One deleteAllKeys call of consolidation takes effect, at any time; other
\* calls for the same keys stay in flight.
DeleteConsolidated(keys) ==
    /\ BagIn(keys, pendingDeletes)
    /\ pendingDeletes' = pendingDeletes (-) SetToBag({keys})
    /\ history' = [k \in DOMAIN history \ keys |-> history[k]]
    /\ UNCHANGED <<otherVars, extraBytes, incoming, rewarded, reshardInvocations,
                   workerVars>>

\* One deleteAllKeys call of consolidation rejects: its promise is not
\* returned and has no handler, nothing is deleted and no invocation learns
\* of it.
DeleteConsolidatedFails(keys) ==
    /\ BagIn(keys, pendingDeletes)
    /\ pendingDeletes' = pendingDeletes (-) SetToBag({keys})
    /\ UNCHANGED <<otherVars, history, extraBytes, incoming, rewarded, reshardInvocations,
                   workerVars>>

Loaded ==
    /\ wpc = "loading"
    /\ \A n \in 1..Len(DatePaths(StaleKeys)) : PathLoaded(DatePaths(StaleKeys)[n])

\* The records are loaded; a builder that throws rejects the invocation.
BuilderFails ==
    /\ Loaded
    /\ BuilderThrows(modifyHistoryRecords(LoadedRecords))
    /\ End("builder-error")
    /\ UNCHANGED <<otherVars, storeVars, wListing, loaderVars, wPendingWrites, wIssued,
                   wOrphans, projectDomainModelCache>>

\* The writes writeRewardedDecisions has issued when finalizeRewardedDecision
\* throws at decision n: the loop finalizes every decision and only fills
\* buffersByS3Key; the writes are issued after the loop.
WritesIssuedBeforeMutant(cache, decisions, n) ==
    BuffersByS3Key(cache, SubSeq(decisions, 1, n - 1))
WritesIssuedBefore(cache, decisions, n) == EmptyMap

\* A rewarded decision that is not valid rejects it as well; the decisions
\* before it have gone through getModelForDomain.
ValidationFails ==
    /\ Loaded
    /\ ~BuilderThrows(modifyHistoryRecords(LoadedRecords))
    /\ LET decisions == RewardedDecisions(modifyHistoryRecords(LoadedRecords))
       IN /\ \E n \in 1..Len(decisions) : ~ValidRewardedDecision(decisions[n])
          /\ LET n == Min({m \in 1..Len(decisions) : ~ValidRewardedDecision(decisions[m])})
             IN /\ wPendingWrites' =
                      WritesIssuedBefore(projectDomainModelCache, decisions, n)
                /\ projectDomainModelCache' =
                      KeysFrom(projectDomainModelCache, SubSeq(decisions, 1, n - 1), 1).cache
    /\ End("validation-error")
    /\ UNCHANGED <<otherVars, storeVars, wListing, loaderVars, wIssued, wOrphans>>

\* writeRewardedDecisions starts the write of every object.
WriteRewardedDecisions ==
    /\ Loaded
    /\ ~BuilderThrows(modifyHistoryRecords(LoadedRecords))
    /\ LET decisions == RewardedDecisions(modifyHistoryRecords(LoadedRecords))
       IN /\ \A n \in 1..Len(decisions) : ValidRewardedDecision(decisions[n])
          /\ wPendingWrites' = BuffersByS3Key(projectDomainModelCache, decisions)
          /\ wIssued' = BuffersByS3Key(projectDomainModelCache, decisions)
          /\ projectDomainModelCache' = KeysFrom(projectDomainModelCache, decisions, 1).cache
    /\ wpc' = "writing"
    /\ UNCHANGED <<otherVars, storeVars, wResults, wListing, loaderVars, wMarked, wOrphans>>

\* The write of one object succeeds; a write in flight may still succeed
\* after another one has failed.
WriteSucceeds(key) ==
    /\ key \in DOMAIN wPendingWrites
    /\ rewarded' = (key :> wPendingWrites[key]) @@ rewarded
    /\ wPendingWrites' = [k \in DOMAIN wPendingWrites \ {key} |-> wPendingWrites[k]]
    /\ UNCHANGED <<otherVars, history, extraBytes, incoming, pendingDeletes,
                   reshardInvocations, wpc, wResults, wListing, loaderVars, wIssued,
                   wMarked, wOrphans, projectDomainModelCache>>

WriteFails(key) ==
    /\ key \in DOMAIN wPendingWrites
    /\ wPendingWrites' = [k \in DOMAIN wPendingWrites \ {key} |-> wPendingWrites[k]]
    /\ Reject("write-error")
    /\ UNCHANGED <<otherVars, storeVars, wListing, loaderVars, wIssued, wOrphans,
                   projectDomainModelCache>>

\* Every write has succeeded.
AllWrittenMutant == wpc = "writing"
AllWritten == wpc = "writing" /\ DOMAIN wPendingWrites = {}

\* s3utils.deleteAllKeys(incomingHistoryS3Keys) resolves: the incoming
\* markers that were listed are deleted.
DeleteIncoming ==
    /\ AllWritten
    /\ incoming' = incoming \ wListing.incoming
    /\ End("done")
    /\ UNCHANGED <<otherVars, history, extraBytes, rewarded, pendingDeletes,
                   reshardInvocations, wListing, loaderVars, wPendingWrites, wIssued,
                   wOrphans, projectDomainModelCache>>

\* It rejects: the invocation rejects with its objects written and the
\* markers in place.
DeleteIncomingFails ==
    /\ AllWritten
    /\ End("delete-error")
    /\ UNCHANGED <<otherVars, storeVars, wListing, loaderVars, wPendingWrites, wIssued,
                   wOrphans, projectDomainModelCache>>

(***************************************************************************)
(* What an earlier invocation has left in flight: the i-th loader left     *)
(* behind goes on as the loader of the latest invocation does; no promise  *)
(* is waiting for it.                                                      *)
(***************************************************************************)
\* The loaders left behind once the i-th is c: one with nothing in flight
\* is dropped.
LeftBehind(i, c) ==
    IF InFlight(c) THEN [wOrphans EXCEPT ![i] = c]
    ELSE [n \in 1..(Len(wOrphans) - 1) |-> IF n < i THEN wOrphans[n] ELSE wOrphans[n + 1]]

OrphanReadRecord(i, key) ==
    /\ i \in 1..Len(wOrphans)
    /\ CanRead(wOrphans[i], key)
    /\ wOrphans' = LeftBehind(i, AfterRead(wOrphans[i], key))
    /\ UNCHANGED <<otherVars, storeVars, wpc, wResults, wListing, loaderVars, wPendingWrites,
                   wIssued, wMarked, projectDomainModelCache>>

OrphanReadFails(i, key) ==
    /\ i \in 1..Len(wOrphans)
    /\ Reading(wOrphans[i], key)
    /\ wOrphans' = LeftBehind(i, AfterReadFails(wOrphans[i], key))
    /\ UNCHANGED <<otherVars, storeVars, wpc, wResults, wListing, loaderVars, wPendingWrites,
                   wIssued, wMarked, projectDomainModelCache>>

OrphanConsolidatePath(i, path) ==
    /\ i \in 1..Len(wOrphans)
    /\ Consolidating(wOrphans[i], path)
    /\ history' = (getConsolidatedHistoryS3Key(PathKeysOf(wOrphans[i], path)[1])
                      :> PathRecordsOf(wOrphans[i], path)) @@ history
    /\ pendingDeletes' = pendingDeletes (+) SetToBag({SeqToSet(PathKeysOf(wOrphans[i], path))})
    /\ wOrphans' = LeftBehind(i, AfterConsolidate(wOrphans[i], path))
    /\ UNCHANGED <<otherVars, extraBytes, incoming, rewarded, reshardInvocations, wpc,
                   wResults, wListing, loaderVars, wPendingWrites, wIssued, wMarked,
                   projectDomainModelCache>>

OrphanConsolidateFails(i, path) ==
    /\ i \in 1..Len(wOrphans)
    /\ Consolidating(wOrphans[i], path)
    /\ wOrphans' = LeftBehind(i, AfterConsolidateFails(wOrphans[i], path))
    /\ UNCHANGED <<otherVars, storeVars, wpc, wResults, wListing, loaderVars, wPendingWrites,
                   wIssued, wMarked, projectDomainModelCache>>

WithoutWrite(c, key) == [c EXCEPT !.writes = [k \in DOMAIN c.writes \ {key} |-> c.writes[k]]]

OrphanWriteSucceeds(i, key) ==
    /\ i \in 1..Len(wOrphans)
    /\ key \in DOMAIN wOrphans[i].writes
    /\ rewarded' = (key :> wOrphans[i].writes[key]) @@ rewarded
    /\ wOrphans' = LeftBehind(i, WithoutWrite(wOrphans[i], key))
    /\ UNCHANGED <<otherVars, history, extraBytes, incoming, pendingDeletes,
                   reshardInvocations, wpc, wResults, wListing, loaderVars, wPendingWrites,
                   wIssued, wMarked, projectDomainModelCache>>

OrphanWriteFails(i, key) ==
    /\ i \in 1..Len(wOrphans)
    /\ key \in DOMAIN wOrphans[i].writes
    /\ wOrphans' = LeftBehind(i, WithoutWrite(wOrphans[i], key))
    /\ UNCHANGED <<otherVars, storeVars, wpc, wResults, wListing, loaderVars, wPendingWrites,
                   wIssued, wMarked, projectDomainModelCache>>

(***************************************************************************)
(* The shards the worker runs on.                                          *)
(***************************************************************************)
WorkerRecord(historyId, mid, ts, type, chosen, rkind, rew) ==
    [HistoryRecord(ts, mid, type, "", "absent", <<>>, rkind, rew)
        EXCEPT !.history_id = historyId, !.chosen = chosen]

Dec1 == WorkerRecord("h1", "m1", 0, "decision", "A", "absent", <<>>)
Rew1 == WorkerRecord("h1", "m2", 1, "rewards", "A", "object", ("reward" :> JsNum(2)))
Dec2 == WorkerRecord("h2", "m3", RewardWindowInSeconds, "decision", "A", "absent", <<>>)
Bad2 == WorkerRecord("h2", "m4", BadTimestamp, "decision", "A", "absent", <<>>)
Dup1 == WorkerRecord("h1", "m1", 0, "decision", "B", "absent", <<>>)
NoId == WorkerRecord("h1", "", 0, "decision", "A", "absent", <<>>)
NoChosen == WorkerRecord("h2", "m5", 0, "decision", "", "absent", <<>>)
Dec3 == WorkerRecord("h1", "m6", RewardWindowInSeconds, "decision", "A", "absent", <<>>)

\* Decisions whose history ids read as array indices, and a decision whose
\* domain names a member of Object.prototype.
Dec10 == WorkerRecord("10", "m7", 0, "decision", "A", "absent", <<>>)
Dec9 == WorkerRecord("9", "m8", 0, "decision", "A", "absent", <<>>)
DecConstructor ==
    [WorkerRecord("h1", "m9", 0, "decision", "A", "absent", <<>>)
        EXCEPT !.domain = "constructor"]

\* The objects under the three keys of a shard; <<>> stands for no object.
Layout(a, b, c) ==
    LET all == (AllHistoryKeys[1] :> a) @@ (AllHistoryKeys[2] :> b) @@ (AllHistoryKeys[4] :> c)
    IN [k \in {x \in DOMAIN all : all[x] # <<>>} |-> all[k]]

Layouts ==
    {Layout(a, b, c) :
        a \in {<<Dec1, Rew1>>, <<Dec2>>, <<NoId, Dec1>>},
        b \in {<<>>, <<Dec2>>, <<Bad2>>, <<Dup1, Dec2>>, <<NoChosen>>, <<Dec3>>},
        c \in {<<>>, <<Dec1, Rew1>>, <<Dup1, Dec2>>, <<Bad2>>}}

\* No invocation has run.
WorkerIdle ==
    /\ wpc = "idle"
    /\ wResults = <<>>
    /\ wListing = [history |-> <<>>, historyDone |-> FALSE,
                   incoming |-> {}, incomingDone |-> FALSE]
    /\ wRead = EmptyMap
    /\ wObjects = EmptyMap
    /\ wEmitted = EmptyMap
    /\ wMessageIds = {}
    /\ wDuplicates = 0
    /\ wPathsDone = {}
    /\ wFailed = NoFailure
    /\ wPendingWrites = EmptyMap
    /\ wIssued = EmptyMap
    /\ wMarked = FALSE
    /\ wOrphans = <<>>
    /\ projectDomainModelCache = NoCache

WorkerInit ==
    /\ BuilderOff
    /\ DispatchOff
    /\ ingest = "off"
    /\ history \in Layouts
    /\ extraBytes \in {0, 1}
    /\ incoming = DOMAIN history
    /\ rewarded = EmptyMap
    /\ pendingDeletes = EmptyBag
    /\ reshardInvocations = 0
    /\ WorkerIdle

WorkerNext ==
    \/ RejectEvent
    \/ \E flag \in BOOLEAN : StartWorker(flag)
    \/ UpdateLastProcessedSucceeds
    \/ UpdateLastProcessedFails
    \/ ListHistory
    \/ ListIncoming
    \/ ListFails
    \/ Reshard
    \/ ReshardSucceeds
    \/ ReshardFails
    \/ StartLoading
    \/ \E key \in SeqToSet(AllHistoryKeys) : ReadRecord(key) \/ ReadFails(key)
    \/ \E path \in {"p1", "p2"} : ConsolidatePath(path) \/ ConsolidateFails(path)
    \/ \E keys \in BagToSet(pendingDeletes) :
          DeleteConsolidated(keys) \/ DeleteConsolidatedFails(keys)
    \/ BuilderFails
    \/ ValidationFails
    \/ WriteRewardedDecisions
    \/ \E key \in DOMAIN wPendingWrites : WriteSucceeds(key) \/ WriteFails(key)
    \/ DeleteIncoming
    \/ DeleteIncomingFails
    \/ \E i \in 1..Len(wOrphans) :
          \/ \E key \in SeqToSet(AllHistoryKeys) :
                OrphanReadRecord(i, key) \/ OrphanReadFails(i, key)
          \/ \E path \in {"p1", "p2"} :
                OrphanConsolidatePath(i, path) \/ OrphanConsolidateFails(i, path)
          \/ \E key \in DOMAIN wOrphans[i].writes :
                OrphanWriteSucceeds(i, key) \/ OrphanWriteFails(i, key)

SpecWorker == WorkerInit /\ [][WorkerNext]_vars

(***************************************************************************)
(* Ingestion next to the worker: a history object is written to the shard, *)
(* then markHistoryS3KeyAsIncoming writes its incoming marker, while       *)
(* assignRewards invocations run on the shard.                             *)
(***************************************************************************)
\* The key ingestion writes.
IngestKey == AllHistoryKeys[2]

\* The history object is written.
IngestObject(records) ==
    /\ ingest = "ready"
    /\ IngestKey \notin DOMAIN history
    /\ history' = (IngestKey :> records) @@ history
    /\ ingest' = "written"
    /\ UNCHANGED <<dispatchVars, builderVars, extraBytes, incoming, rewarded, pendingDeletes,
                   reshardInvocations, workerVars>>

\* markHistoryS3KeyAsIncoming: the marker of the object is written.
markHistoryS3KeyAsIncoming ==
    /\ ingest = "written"
    /\ incoming' = incoming \cup {IngestKey}
    /\ ingest' = "marked"
    /\ UNCHANGED <<dispatchVars, builderVars, history, extraBytes, rewarded, pendingDeletes,
                   reshardInvocations, workerVars>>

\* The shards ingestion writes to: the history objects and the markers.
\* A consolidated object without marker is what a pass that succeeded
\* leaves behind.
IngestShard(objects, markers) == [history |-> objects, incoming |-> markers]

IngestShards ==
    {IngestShard(EmptyMap, {}),
     IngestShard(AllHistoryKeys[3] :> <<Dec1, Rew1>>, {}),
     IngestShard(AllHistoryKeys[1] :> <<Dec1, Rew1>>, {AllHistoryKeys[1]}),
     IngestShard(AllHistoryKeys[1] :> <<Dec10, Dec9, DecConstructor>>, {AllHistoryKeys[1]}),
     IngestShard((AllHistoryKeys[1] :> <<Dec2>>) @@ (AllHistoryKeys[4] :> <<Bad2>>),
                 {AllHistoryKeys[1], AllHistoryKeys[4]}),
     IngestShard((AllHistoryKeys[1] :> <<Dec1, Rew1>>) @@ (AllHistoryKeys[4] :> <<Dup1, Dec2>>),
                 {AllHistoryKeys[1], AllHistoryKeys[4]})}

IngestInit ==
    /\ BuilderOff
    /\ DispatchOff
    /\ \E shard \in IngestShards : history = shard.history /\ incoming = shard.incoming
    /\ extraBytes \in {0, 1}
    /\ rewarded = EmptyMap
    /\ pendingDeletes = EmptyBag
    /\ reshardInvocations = 0
    /\ ingest = "ready"
    /\ WorkerIdle

IngestNext ==
    \/ WorkerNext
    \/ \E records \in {<<Dec3>>, <<NoChosen>>} : IngestObject(records)
    \/ markHistoryS3KeyAsIncoming

SpecIngest == IngestInit /\ [][IngestNext]_vars

(***************************************************************************)
(* Claims about the loader and the worker.                                 *)
(***************************************************************************)
\* Everything the callbacks of the pass have returned so far.
EmittedRecords ==
    Flat([n \in 1..Len(AllHistoryKeys) |->
            IF AllHistoryKeys[n] \in DOMAIN wEmitted THEN wEmitted[AllHistoryKeys[n]]
            ELSE <<>>])

RecordsRead ==
    SeqSum([n \in 1..Len(AllHistoryKeys) |->
              IF AllHistoryKeys[n] \in DOMAIN wRead THEN wRead[AllHistoryKeys[n]] ELSE 0])

\* C4: in one pass of the loader, under every interleaving of the reads, no
\* two returned records share a message_id, no returned record lacks one,
\* and the records dropped are as many as the duplicates counter says.
C4_Deduplicated ==
    /\ \A i, j \in 1..Len(EmittedRecords) :
          i # j => EmittedRecords[i].message_id # EmittedRecords[j].message_id
    /\ \A i \in 1..Len(EmittedRecords) : EmittedRecords[i].message_id # ""
    /\ RecordsRead - Len(EmittedRecords) = wDuplicates

\* All objects are read, two of them hold a record of the same message id,
\* and a record was dropped.
C4_Witness ==
    /\ Loaded
    /\ wDuplicates >= 1
    /\ \E k1, k2 \in DOMAIN wObjects :
          /\ k1 # k2
          /\ \E i \in 1..Len(wObjects[k1]) : \E j \in 1..Len(wObjects[k2]) :
                /\ wObjects[k1][i].message_id # ""
                /\ wObjects[k1][i].message_id = wObjects[k2][j].message_id
                /\ wObjects[k1][i] # wObjects[k2][j]

\* The builder has succeeded, every rewarded decision is valid and has its
\* line in an object the invocation has issued, and every object issued is
\* in the store.
PassWritten ==
    LET records == modifyHistoryRecords(LoadedRecords)
    IN /\ ~BuilderThrows(records)
       /\ \A n \in 1..Len(RewardedDecisions(records)) :
             /\ ValidRewardedDecision(RewardedDecisions(records)[n])
             /\ \E k \in DOMAIN wIssued :
                   Line(RewardedDecisions(records)[n]) \in SeqToSet(wIssued[k])
       /\ \A k \in DOMAIN wIssued : k \in DOMAIN rewarded

\* C5: incoming markers are deleted only by an invocation whose listing,
\* size check, load, builder and writes have all succeeded; an invocation
\* that fails deletes none.
C5_MarkersDeletedLast ==
    [][/\ incoming' # incoming =>
            /\ wListing.historyDone /\ wListing.incomingDone
            /\ TotalSize <= WorkerMaxPayloadInMB * 1024 * 1024
            /\ wpc = "writing"
            /\ \A path \in SeqToSet(DatePaths(StaleKeys)) : PathLoaded(path)
            /\ wFailed = NoFailure
            /\ DOMAIN wPendingWrites = {}
            /\ PassWritten
            /\ wResults' = Append(wResults, "done")
       /\ (Len(wResults') > Len(wResults) /\ wResults'[Len(wResults')] # "done")
            => incoming' = incoming]_vars

\* An invocation failed with the markers in place, and the next one wrote
\* the rewarded decisions and deleted the markers it had listed.
C5_Witness ==
    /\ Len(wResults) = 2
    /\ wResults[1] \in {"read-error", "write-error", "consolidate-error", "list-error",
                        "mark-error"}
    /\ wResults[2] = "done"
    /\ wListing.incoming # {}
    /\ incoming = {}
    /\ DOMAIN rewarded # {}

CountOf(results, outcome) == Cardinality({n \in 1..Len(results) : results[n] = outcome})

\* C6: a listing whose sizes sum to more than the payload limit leads to
\* exactly one reshard invocation, and the invocation reads no object,
\* writes no object and deletes nothing until it ends; a listing within the
\* limit leads to no reshard invocation.
C6_OversizeReshards ==
    [][LET oversize == /\ wListing.historyDone /\ wListing.incomingDone /\ wpc = "listing"
                       /\ TotalSize > WorkerMaxPayloadInMB * 1024 * 1024
       IN /\ reshardInvocations' # reshardInvocations =>
                /\ oversize
                /\ reshardInvocations' = reshardInvocations + 1
                /\ wpc' = "resharding"
                /\ history' = history /\ rewarded' = rewarded /\ incoming' = incoming
                /\ pendingDeletes' = pendingDeletes
          /\ wpc = "resharding" =>
                /\ wRead = EmptyMap /\ wRead' = EmptyMap
                /\ wIssued = EmptyMap /\ wIssued' = EmptyMap
                /\ wPendingWrites = EmptyMap /\ wPendingWrites' = EmptyMap
                /\ incoming' = incoming
                /\ reshardInvocations' = reshardInvocations
                /\ wpc' # wpc =>
                      /\ wResults' \in {Append(wResults, "resharded"),
                                        Append(wResults, "reshard-error")}
                      /\ history' = history /\ rewarded' = rewarded
                      /\ pendingDeletes' = pendingDeletes
          /\ (oversize /\ wpc' # wpc) => reshardInvocations' = reshardInvocations + 1
          /\ wpc' = "loading" => TotalSize <= WorkerMaxPayloadInMB * 1024 * 1024
          /\ CountOf(wResults', "resharded") + CountOf(wResults', "reshard-error")
                + (IF wpc' = "resharding" THEN 1 ELSE 0) = reshardInvocations']_vars

\* The listing was one byte over the limit: one reshard invocation, nothing
\* read, written or deleted.
C6_Witness ==
    /\ wResults = <<"resharded">>
    /\ reshardInvocations = 1
    /\ TotalSize = WorkerMaxPayloadInMB * 1024 * 1024 + 1
    /\ incoming # {}
    /\ DOMAIN rewarded = {}

\* C7: when the builder throws for one history id, the rewarded decisions
\* of the other history ids of the pass are written all the same.
C7_OtherGroupsWritten ==
    (Len(wResults) > 0 /\ wResults[Len(wResults)] = "builder-error" /\ wpc = "idle") =>
        LET records == modifyHistoryRecords(LoadedRecords)
        IN \A n \in 1..Len(HistoryIds(records)) :
              ~GroupThrows(records, HistoryIds(records)[n]) =>
                 \A m \in 1..Len(GroupDecisions(records, HistoryIds(records)[n])) :
                    LET rd == GroupDecisions(records, HistoryIds(records)[n])[m]
                    IN /\ RewardedKeyOf(rd) \in DOMAIN rewarded
                       /\ Line(rd) \in SeqToSet(rewarded[RewardedKeyOf(rd)])

\* C10: after a first invocation that succeeded, a second one leaves every
\* rewarded-decision object as it is.
C10_SecondRunNoOp ==
    [][wResults = <<"done">> => rewarded' = rewarded]_vars

\* The records stored in some history object under a date path.
StoredUnder(path) ==
    UNION {SeqToSet(history[key]) : key \in {k \in DOMAIN history : k.path = path}}

\* C19: consolidation loses no record.  Once the pass has consolidated a
\* date path of several objects, every deduplicated record it loaded from
\* the path is stored in some object under the path, also when the path
\* held an earlier consolidated object; after a failed write of the
\* consolidated object every record the pass loaded is still stored under
\* its path.
C19_ConsolidationKeepsRecords ==
    /\ \A path \in wPathsDone : SeqToSet(PathRecords(path)) \subseteq StoredUnder(path)
    /\ (wpc = "idle" /\ Len(wResults) > 0 /\ wResults[Len(wResults)] = "consolidate-error") =>
          \A key \in DOMAIN wEmitted : SeqToSet(wEmitted[key]) \subseteq StoredUnder(key.path)

\* The case of C19: a date path that held a consolidated object and another
\* object has been consolidated and the delete has taken effect.
C19_Case ==
    /\ "p1" \in wPathsDone
    /\ getConsolidatedHistoryS3Key(IngestKey) \in SeqToSet(PathS3Keys("p1"))
    /\ pendingDeletes = EmptyBag

LastOutcome(outcome) == Len(wResults) > 0 /\ wResults[Len(wResults)] = outcome

\* The markers a step removes.
DeletedMarkers == incoming \ incoming'

\* C20: with ingestion running next to the worker, every incoming marker
\* the worker deletes refers to a history object that was in the history
\* listing the worker processed in that pass; no marker is deleted for a
\* history object of the shard whose records were not read.
C20_DeletedMarkersWereListed ==
    [][\A key \in DeletedMarkers :
          key \in DOMAIN history => key \in SeqToSet(StaleKeys)]_vars

\* The case of C20: ingestion has written an object and its marker while an
\* invocation was running, and the invocation has deleted markers.
C20_Case ==
    /\ ingest = "marked"
    /\ LastOutcome("done")
    /\ IngestKey \in DOMAIN history
    /\ IngestKey \in wListing.incoming


\* C18: when a rewarded decision of the pass is not valid, the invocation
\* issues no write of a rewarded-decision object at all and deletes no
\* incoming marker: from its start until the next one starts no marker
\* disappears, and a rewarded-decision object changes only by a write an
\* earlier invocation left in flight.
C18_InvalidWritesNothing ==
    [][/\ wResults' = Append(wResults, "validation-error") =>
            /\ wpc = "loading"
            /\ rewarded' = rewarded
            /\ incoming \subseteq incoming'
            /\ wPendingWrites' = EmptyMap
            /\ wIssued' = EmptyMap
       /\ (wpc \in {"marking", "listing", "loading"}
             \/ (wpc = "idle" /\ LastOutcome("validation-error"))) =>
            /\ rewarded' # rewarded => wOrphans' # wOrphans
            /\ incoming \subseteq incoming']_vars

\* An invocation ended by an invalid decision, with a valid decision whose
\* output key holds no invalid one: nothing is written, the markers stay.
C18_Witness ==
    /\ wpc = "idle"
    /\ wResults = <<"validation-error">>
    /\ LET decisions == RewardedDecisions(modifyHistoryRecords(LoadedRecords))
       IN \E n \in 1..Len(decisions) :
             /\ ValidRewardedDecision(decisions[n])
             /\ RewardedKeyOf(decisions[n]) \notin DOMAIN rewarded
             /\ \A m \in 1..Len(decisions) :
                   ~ValidRewardedDecision(decisions[m]) =>
                       /\ m > n
                       /\ RewardedKeyOf(decisions[m]) # RewardedKeyOf(decisions[n])
    /\ DOMAIN rewarded = {}
    /\ incoming # {}
    /\ wListing.incoming = incoming

(***************************************************************************)
(* dispatchRewardAssignmentWorkers and dispatchAssignRewardsIfNecessary     *)
(***************************************************************************)
MaxDispatches == 1
MaxWorkerCount == 2
MaxTicks == 2
MaxDispatchTicks == 1
ReprocessShardWaitTimeInSeconds == 1

\* The times new Date() returns: one cool-down apart, the first one long
\* enough after the epoch.
TickMillis == ReprocessShardWaitTimeInSeconds * 1000
StartClock == 2 * TickMillis
Times == {StartClock + k * TickMillis : k \in 0..MaxTicks}
LastTime == StartClock + MaxTicks * TickMillis

Epoch == 0

Max(a, b) == IF a >= b THEN a ELSE b

\* naming.allProjects
allProjects == <<"pA", "pB">>

\* shards.sort(): shard ids in the order of their names.
ShardRank == ("s1" :> 1) @@ ("s2" :> 2) @@ ("s3" :> 3)

RECURSIVE SortShards(_)
SortShards(shards) ==
    IF shards = <<>> THEN <<>>
    ELSE LET first == CHOOSE n \in 1..Len(shards) :
                         \A m \in 1..Len(shards) : ShardRank[shards[n]] <= ShardRank[shards[m]]
         IN <<shards[first]>> \o
            SortShards([m \in 1..(Len(shards) - 1) |->
                          IF m < first THEN shards[m] ELSE shards[m + 1]])

\* shard.groupShards: parents, children and the shards not resharding.
groupShards(class, sortedShards) ==
    [reshardingParents |-> SelectSeq(sortedShards, LAMBDA v : class[v] = "parent"),
     reshardingChildren |-> SelectSeq(sortedShards, LAMBDA v : class[v] = "child"),
     nonResharding |-> SelectSeq(sortedShards, LAMBDA v : class[v] = "stable")]

\* A shard without date taken as processed at the end of time.
LastProcessedOfMutant(lastProcessedDates, v) ==
    IF v \in DOMAIN lastProcessedDates THEN lastProcessedDates[v]
    ELSE LastTime

\* lastProcessedDates[v] || epoch
LastProcessedOf(lastProcessedDates, v) ==
    IF v \in DOMAIN lastProcessedDates THEN lastProcessedDates[v] ELSE Epoch

IncomingShardsWithDates(incomingShards, lastProcessedDates) ==
    [n \in 1..Len(incomingShards) |->
        [shardId |-> incomingShards[n],
         lastProcessed |-> LastProcessedOf(lastProcessedDates, incomingShards[n])]]

\* The list as it is, without the sort.
SortByLastProcessedUnsorted(pairs) == pairs

\* incomingShardsWithDates.sort((a, b) => a[1] - b[1]), a stable sort.
RECURSIVE SortByLastProcessed(_)
SortByLastProcessed(pairs) ==
    IF pairs = <<>> THEN <<>>
    ELSE LET first == CHOOSE n \in 1..Len(pairs) :
                         /\ \A m \in 1..Len(pairs) :
                               pairs[n].lastProcessed <= pairs[m].lastProcessed
                         /\ \A m \in 1..(n - 1) :
                               pairs[m].lastProcessed # pairs[n].lastProcessed
         IN <<pairs[first]>> \o
            SortByLastProcessed([m \in 1..(Len(pairs) - 1) |->
                                   IF m < first THEN pairs[m] ELSE pairs[m + 1]])

\* The three tests that skip a shard; none applies with forceProcessing.
NoWorkersLeftMutant(remainingWorkers) == remainingWorkers < 0
NoWorkersLeft(remainingWorkers) == remainingWorkers <= 0

IsReshardingMutant(nonReshardingShardsSet, shardId) == FALSE
IsResharding(nonReshardingShardsSet, shardId) == shardId \notin nonReshardingShardsSet

TooRecentMutant(now, lastProcessed) == FALSE
TooRecent(now, lastProcessed) ==
    (now - lastProcessed) < ReprocessShardWaitTimeInSeconds * 1000

\* The callback of incomingShardsWithDates.map from the n-th shard on: the
\* shards a worker is invoked for, in order.
RECURSIVE DispatchFrom(_, _, _, _, _, _)
DispatchFrom(pairs, n, remainingWorkers, nonReshardingShardsSet, forceProcessing, now) ==
    IF n > Len(pairs) THEN <<>>
    ELSE IF ~forceProcessing /\ NoWorkersLeft(remainingWorkers)
         THEN DispatchFrom(pairs, n + 1, remainingWorkers, nonReshardingShardsSet,
                           forceProcessing, now)
    ELSE IF ~forceProcessing /\ IsResharding(nonReshardingShardsSet, pairs[n].shardId)
         THEN DispatchFrom(pairs, n + 1, remainingWorkers, nonReshardingShardsSet,
                           forceProcessing, now)
    ELSE IF ~forceProcessing /\ TooRecent(now, pairs[n].lastProcessed)
         THEN DispatchFrom(pairs, n + 1, remainingWorkers, nonReshardingShardsSet,
                           forceProcessing, now)
    ELSE <<pairs[n].shardId>> \o
         DispatchFrom(pairs, n + 1, remainingWorkers - 1, nonReshardingShardsSet,
                      forceProcessing, now)

dispatchAssignRewardsIfNecessary(nonReshardingShards, lastProcessedDates, forceProcessing, incomingShards, now, workerCount) ==
    DispatchFrom(SortByLastProcessed(IncomingShardsWithDates(incomingShards, lastProcessedDates)),
                 1, Max(workerCount, 1), SeqToSet(nonReshardingShards), forceProcessing, now)

(***************************************************************************)
(* The dispatcher, step by step.  An invocation is over when its promise   *)
(* settles: it resolves when every call of every project has resolved and  *)
(* rejects at the first call that rejects.  The calls in flight and the    *)
(* callbacks still ahead then go on, also beside the next invocation, so   *)
(* the steps below take the invocation they belong to.                     *)
(***************************************************************************)
\* The projects naming.allProjects returns in this deployment.
ProjectNames == DOMAIN dShape

\* The chain of one project in one invocation.  It is "loading" until its
\* shards and dates are there, then "skipped", or "listing" while its
\* incoming shards are listed, then "dispatched"; "failed" when a load or
\* the listing was rejected.
NotLoaded ==
    [stage |-> "loading", loaded |-> FALSE, dates |-> <<>>, now |-> Epoch,
     resharding |-> "none"]

\* The invocations started so far.
Runs == 1..Len(dProject)

\* The promise of the invocation settles, if it is still pending.
SettleDispatch(run, outcome) ==
    IF run = Len(dProject) /\ dpc = "running"
    THEN dpc' = "idle" /\ dResults' = Append(dResults, outcome)
    ELSE UNCHANGED <<dpc, dResults>>

\* The invocation starts: for every project the shards are listed and the
\* last-processed dates loaded.
StartDispatch(forceProcessing) ==
    /\ dpc = "idle"
    /\ dpc' = "running"
    /\ dForce' = Append(dForce, forceProcessing)
    /\ dProject' = Append(dProject, [projectName \in ProjectNames |-> NotLoaded])
    /\ UNCHANGED <<nonDispatchVars, dGrants, dWorkerCount, clock, dShape, registry,
                   dPendingMarks, dPendingInvokes, dRequested, dEnqueued, dResults>>

\* shard.loadAndConsolidateShardLastProcessedDates resolves with the dates
\* the registry holds now.
LoadDates(run, projectName) ==
    /\ run \in Runs
    /\ dProject[run][projectName].stage = "loading"
    /\ ~dProject[run][projectName].loaded
    /\ dProject' = [dProject EXCEPT ![run][projectName].loaded = TRUE,
                                    ![run][projectName].dates = registry[projectName]]
    /\ UNCHANGED <<nonDispatchVars, dGrants, dpc, dForce, dWorkerCount, clock, dShape,
                   registry, dPendingMarks, dPendingInvokes, dRequested, dEnqueued, dResults>>

\* It rejects.
LoadDatesFails(run, projectName) ==
    /\ run \in Runs
    /\ dProject[run][projectName].stage = "loading"
    /\ ~dProject[run][projectName].loaded
    /\ dProject' = [dProject EXCEPT ![run][projectName].stage = "failed"]
    /\ SettleDispatch(run, "error")
    /\ UNCHANGED <<nonDispatchVars, dGrants, dForce, dWorkerCount, clock, dShape, registry,
                   dPendingMarks, dPendingInvokes, dRequested, dEnqueued>>

\* naming.listAllShards rejects.
ListShardsFails(run, projectName) ==
    /\ run \in Runs
    /\ dProject[run][projectName].stage = "loading"
    /\ dProject' = [dProject EXCEPT ![run][projectName].stage = "failed"]
    /\ SettleDispatch(run, "error")
    /\ UNCHANGED <<nonDispatchVars, dGrants, dForce, dWorkerCount, clock, dShape, registry,
                   dPendingMarks, dPendingInvokes, dRequested, dEnqueued>>

\* Both have resolved: a project without shards is skipped.
SkipProject(run, projectName) ==
    /\ run \in Runs
    /\ dProject[run][projectName].stage = "loading"
    /\ dProject[run][projectName].loaded
    /\ dShape[projectName].shards = <<>>
    /\ dProject' = [dProject EXCEPT ![run][projectName].stage = "skipped"]
    /\ UNCHANGED <<nonDispatchVars, dGrants, dpc, dForce, dWorkerCount, clock, dShape,
                   registry, dPendingMarks, dPendingInvokes, dRequested, dEnqueued, dResults>>

\* Both have resolved and the project has shards: they are sorted and
\* grouped, shard.dispatchReshardingIfNecessary is called, and
\* dispatchAssignRewardsIfNecessary takes the time (now = new Date()) and
\* lists the incoming shards.
BeginProject(run, projectName) ==
    /\ run \in Runs
    /\ dProject[run][projectName].stage = "loading"
    /\ dProject[run][projectName].loaded
    /\ dShape[projectName].shards # <<>>
    /\ dProject' = [dProject EXCEPT ![run][projectName].stage = "listing",
                                    ![run][projectName].now = clock,
                                    ![run][projectName].resharding = "pending"]
    /\ UNCHANGED <<nonDispatchVars, dGrants, dpc, dForce, dWorkerCount, clock, dShape, registry,
                   dPendingMarks, dPendingInvokes, dRequested, dEnqueued, dResults>>

\* shard.dispatchReshardingIfNecessary resolves.
ReshardingSucceeds(run, projectName) ==
    /\ run \in Runs
    /\ dProject[run][projectName].resharding = "pending"
    /\ dProject' = [dProject EXCEPT ![run][projectName].resharding = "done"]
    /\ UNCHANGED <<nonDispatchVars, dGrants, dpc, dForce, dWorkerCount, clock, dShape,
                   registry, dPendingMarks, dPendingInvokes, dRequested, dEnqueued, dResults>>

\* It rejects.
ReshardingFails(run, projectName) ==
    /\ run \in Runs
    /\ dProject[run][projectName].resharding = "pending"
    /\ dProject' = [dProject EXCEPT ![run][projectName].resharding = "failed"]
    /\ SettleDispatch(run, "error")
    /\ UNCHANGED <<nonDispatchVars, dGrants, dForce, dWorkerCount, clock, dShape, registry,
                   dPendingMarks, dPendingInvokes, dRequested, dEnqueued>>

\* naming.listAllIncomingHistoryShards resolves: for every shard
\* dispatchAssignRewardsIfNecessary selects, with the dates loaded and the
\* time taken before, shard.updateShardLastProcessed is called with the
\* project and the shard, and a worker is invoked.  The time of the callback
\* is the time of these calls.
DispatchProject(run, projectName) ==
    /\ run \in Runs
    /\ dProject[run][projectName].stage = "listing"
    /\ LET groups == groupShards(dShape[projectName].class,
                                 SortShards(dShape[projectName].shards))
           now == dProject[run][projectName].now
           selected == dispatchAssignRewardsIfNecessary(
                          groups.nonResharding, dProject[run][projectName].dates,
                          dForce[run], dShape[projectName].incoming, now, dWorkerCount)
       IN /\ dRequested' = dRequested \o
                 [n \in 1..Len(selected) |->
                     [run |-> run, force |-> dForce[run],
                      project_name |-> projectName, shard_id |-> selected[n],
                      last_processed_timestamp_updated |-> TRUE]]
          /\ dPendingMarks' = dPendingMarks \cup
                 {[run |-> run, project_name |-> projectName, shard_id |-> selected[n],
                   called |-> clock] : n \in 1..Len(selected)}
          /\ dPendingInvokes' = dPendingInvokes \cup
                 {[run |-> run, project_name |-> projectName,
                   shard_id |-> selected[n], last_processed_timestamp_updated |-> TRUE] :
                     n \in 1..Len(selected)}
          /\ dGrants' = dGrants \cup
                 {[project_name |-> projectName, shard_id |-> selected[n], time |-> clock] :
                     n \in 1..Len(selected)}
    /\ dProject' = [dProject EXCEPT ![run][projectName].stage = "dispatched"]
    /\ UNCHANGED <<nonDispatchVars, dpc, dForce, dWorkerCount, clock, dShape, registry,
                   dEnqueued, dResults>>

\* naming.listAllIncomingHistoryShards rejects.
ListIncomingFails(run, projectName) ==
    /\ run \in Runs
    /\ dProject[run][projectName].stage = "listing"
    /\ dProject' = [dProject EXCEPT ![run][projectName].stage = "failed"]
    /\ SettleDispatch(run, "error")
    /\ UNCHANGED <<nonDispatchVars, dGrants, dForce, dWorkerCount, clock, dShape, registry,
                   dPendingMarks, dPendingInvokes, dRequested, dEnqueued>>

\* shard.updateShardLastProcessed completes: it was given no time and has
\* written the time it read itself, between its call and now.
MarkSucceeds(mark, time) ==
    /\ mark \in dPendingMarks
    /\ time \in Times
    /\ mark.called <= time
    /\ time <= clock
    /\ dPendingMarks' = dPendingMarks \ {mark}
    /\ registry' = [registry EXCEPT ![mark.project_name] =
                       (mark.shard_id :> time) @@ @]
    /\ UNCHANGED <<nonDispatchVars, dGrants, dpc, dForce, dWorkerCount, clock, dShape,
                   dProject, dPendingInvokes, dRequested, dEnqueued, dResults>>

MarkFails(mark) ==
    /\ mark \in dPendingMarks
    /\ dPendingMarks' = dPendingMarks \ {mark}
    /\ SettleDispatch(mark.run, "error")
    /\ UNCHANGED <<nonDispatchVars, dGrants, dForce, dWorkerCount, clock, dShape, registry,
                   dProject, dPendingInvokes, dRequested, dEnqueued>>

\* lambda.invoke completes: the worker event is enqueued.
InvokeSucceeds(payload) ==
    /\ payload \in dPendingInvokes
    /\ dPendingInvokes' = dPendingInvokes \ {payload}
    /\ dEnqueued' = dEnqueued \cup {payload}
    /\ UNCHANGED <<nonDispatchVars, dGrants, dpc, dForce, dWorkerCount, clock, dShape,
                   registry, dProject, dPendingMarks, dRequested, dResults>>

InvokeFails(payload) ==
    /\ payload \in dPendingInvokes
    /\ dPendingInvokes' = dPendingInvokes \ {payload}
    /\ SettleDispatch(payload.run, "error")
    /\ UNCHANGED <<nonDispatchVars, dGrants, dForce, dWorkerCount, clock, dShape, registry,
                   dProject, dPendingMarks, dRequested, dEnqueued>>

\* Every call of the project in the invocation has resolved.
ProjectResolved(run, projectName) ==
    \/ dProject[run][projectName].stage = "skipped"
    \/ /\ dProject[run][projectName].stage = "dispatched"
       /\ dProject[run][projectName].resharding = "done"
       /\ \A mark \in dPendingMarks :
             ~(mark.run = run /\ mark.project_name = projectName)
       /\ \A payload \in dPendingInvokes :
             ~(payload.run = run /\ payload.project_name = projectName)

\* Every call of every project has resolved: the invocation resolves.
FinishDispatch ==
    /\ dpc = "running"
    /\ \A projectName \in ProjectNames : ProjectResolved(Len(dProject), projectName)
    /\ dpc' = "idle"
    /\ dResults' = Append(dResults, "done")
    /\ UNCHANGED <<nonDispatchVars, dGrants, dForce, dWorkerCount, clock, dShape, registry,
                   dProject, dPendingMarks, dPendingInvokes, dRequested, dEnqueued>>

\* Time goes on, by one cool-down.
AdvanceClock ==
    /\ clock < LastTime
    /\ clock' = clock + TickMillis
    /\ UNCHANGED <<nonDispatchVars, dGrants, dpc, dForce, dWorkerCount, dShape, registry,
                   dProject, dPendingMarks, dPendingInvokes, dRequested, dEnqueued, dResults>>

\* The shards of a project: what the listings return and the dates the
\* registry holds.  A shard is incoming only if it is listed.
Old == StartClock - TickMillis
Recent == StartClock - (TickMillis \div 2)

ProjectShape(shards, class, incomingShards, lastProcessedDates) ==
    [shards |-> shards, class |-> class, incoming |-> incomingShards,
     lastProcessed |-> lastProcessedDates]

ProjectShapes ==
    { ProjectShape(<<>>, <<>>, <<>>, <<>>),
      ProjectShape(<<"s2", "s1">>, ("s1" :> "stable") @@ ("s2" :> "stable"),
                   <<"s1", "s2">>, <<>>),
      ProjectShape(<<"s1", "s2">>, ("s1" :> "stable") @@ ("s2" :> "stable"),
                   <<"s1", "s2">>, ("s1" :> Recent) @@ ("s2" :> Old)),
      ProjectShape(<<"s1", "s2">>, ("s1" :> "parent") @@ ("s2" :> "stable"),
                   <<"s1", "s2">>, ("s2" :> Old)),
      ProjectShape(<<"s1", "s2">>, ("s1" :> "child") @@ ("s2" :> "child"),
                   <<"s1">>, <<>>) }

\* The second project has at most one incoming shard.
SmallProjectShapes ==
    { ProjectShape(<<>>, <<>>, <<>>, <<>>),
      ProjectShape(<<"s3">>, ("s3" :> "stable"), <<"s3">>, <<>>) }

\* No invocation has run.
DispatchIdle ==
    /\ dpc = "idle"
    /\ dForce = <<>>
    /\ clock = StartClock
    /\ registry = [projectName \in ProjectNames |-> dShape[projectName].lastProcessed]
    /\ dProject = <<>>
    /\ dPendingMarks = {}
    /\ dPendingInvokes = {}
    /\ dRequested = <<>>
    /\ dEnqueued = {}
    /\ dResults = <<>>
    /\ dGrants = {}

DispatchInit ==
    /\ BuilderOff
    /\ StoreOff
    /\ WorkerOff
    /\ dWorkerCount \in 0..MaxWorkerCount
    /\ dShape \in {shape \in [SeqToSet(allProjects) -> ProjectShapes \cup SmallProjectShapes] :
                     /\ shape[allProjects[1]] \in ProjectShapes
                     /\ shape[allProjects[2]] \in SmallProjectShapes}
    /\ DispatchIdle

\* The steps of the invocations that have started.
DispatchSteps ==
    \/ \E run \in Runs : \E projectName \in ProjectNames :
          \/ LoadDates(run, projectName)
          \/ LoadDatesFails(run, projectName)
          \/ ListShardsFails(run, projectName)
          \/ SkipProject(run, projectName)
          \/ BeginProject(run, projectName)
          \/ ReshardingSucceeds(run, projectName)
          \/ ReshardingFails(run, projectName)
          \/ DispatchProject(run, projectName)
          \/ ListIncomingFails(run, projectName)
    \/ \E mark \in dPendingMarks : \E time \in Times : MarkSucceeds(mark, time)
    \/ \E mark \in dPendingMarks : MarkFails(mark)
    \/ \E payload \in dPendingInvokes : InvokeSucceeds(payload)
    \/ \E payload \in dPendingInvokes : InvokeFails(payload)
    \/ FinishDispatch

\* At most MaxDispatches invocations are followed, for MaxDispatchTicks
\* cool-downs.
DispatchNext ==
    \/ /\ Len(dProject) < MaxDispatches
       /\ \E forceProcessing \in BOOLEAN : StartDispatch(forceProcessing)
    \/ DispatchSteps
    \/ /\ clock < StartClock + MaxDispatchTicks * TickMillis
       /\ AdvanceClock

SpecDispatch == DispatchInit /\ [][DispatchNext]_vars

(***************************************************************************)
(* An invocation beside what is left of the one before: one project with   *)
(* two stable shards never processed, two workers, and one invocation more *)
(* than MaxDispatches.                                                     *)
(***************************************************************************)
OverlapInit ==
    /\ BuilderOff
    /\ StoreOff
    /\ WorkerOff
    /\ dWorkerCount = MaxWorkerCount
    /\ dShape = [projectName \in SeqToSet(allProjects) |->
                    IF projectName = allProjects[1]
                    THEN ProjectShape(<<"s2", "s1">>,
                                      ("s1" :> "stable") @@ ("s2" :> "stable"),
                                      <<"s1", "s2">>, <<>>)
                    ELSE ProjectShape(<<>>, <<>>, <<>>, <<>>)]
    /\ DispatchIdle

OverlapNext ==
    \/ /\ Len(dProject) < MaxDispatches + 1
       /\ \E forceProcessing \in BOOLEAN : StartDispatch(forceProcessing)
    \/ DispatchSteps
    \/ /\ clock < StartClock + MaxDispatchTicks * TickMillis
       /\ AdvanceClock

SpecOverlap == OverlapInit /\ [][OverlapNext]_vars

(***************************************************************************)
(* The dispatcher invoked again and again, without force_processing: the   *)
(* control loop.  Invocations do not overlap: an invocation starts when    *)
(* the one before is over and nothing of it is in flight or ahead.         *)
(***************************************************************************)
\* No call of an invocation is in flight and no callback ahead.
Quiescent ==
    /\ dPendingMarks = {}
    /\ dPendingInvokes = {}
    /\ \A run \in Runs : \A projectName \in ProjectNames :
          /\ dProject[run][projectName].stage \in {"skipped", "dispatched", "failed"}
          /\ dProject[run][projectName].resharding # "pending"

\* The next invocation of the loop.
StartLoop ==
    /\ Quiescent
    /\ Len(dProject) < MaxDispatches
    /\ StartDispatch(FALSE)

\* The invocations so far are not kept for ever.
NextTick ==
    /\ dpc = "idle"
    /\ Len(dProject) = MaxDispatches
    /\ Quiescent
    /\ dResults' = <<>>
    /\ dForce' = <<>>
    /\ dProject' = <<>>
    /\ dRequested' = <<>>
    /\ dEnqueued' = {}
    /\ UNCHANGED <<nonDispatchVars, dGrants, dpc, dWorkerCount, clock, dShape, registry,
                   dPendingMarks, dPendingInvokes>>

\* The shapes of the loop: a stable incoming shard among the shards, and up
\* to three stable incoming shards that compete.
LoopShapes ==
    {shape \in ProjectShapes :
        \E v \in SeqToSet(shape.incoming) : shape.class[v] = "stable"}
    \cup
    { ProjectShape(<<"s1", "s2", "s3">>,
                   ("s1" :> "stable") @@ ("s2" :> "stable") @@ ("s3" :> "stable"),
                   <<"s1", "s2", "s3">>, ("s1" :> Recent) @@ ("s3" :> Old)) }

\* One project; at least one worker and fewer workers than shards or as
\* many (more workers than shards change nothing).
LoopInit ==
    /\ BuilderOff
    /\ StoreOff
    /\ WorkerOff
    /\ dWorkerCount \in 1..MaxWorkerCount
    /\ dShape \in [{allProjects[1]} -> LoopShapes]
    /\ dWorkerCount <= Len(dShape[allProjects[1]].shards)
    /\ DispatchIdle

LoopNext ==
    \/ StartLoop
    \/ NextTick
    \/ DispatchSteps
    \/ AdvanceClock

SpecLoop == LoopInit /\ [][LoopNext]_vars

\* What the schedule gives: time passes, and when nothing of the invocation
\* before is left the control loop invokes the dispatcher again.  Nothing
\* here makes a call return or succeed.
LoopFairness ==
    /\ WF_vars(AdvanceClock)
    /\ WF_vars(StartLoop)
    /\ WF_vars(NextTick)

SpecLive == SpecLoop /\ LoopFairness

ShardIds == DOMAIN ShardRank

(***************************************************************************)
(* Claims about the dispatcher.                                            *)
(***************************************************************************)
\* The lambda.invoke calls of one invocation, of all projects or of one.
RequestedInRun(run) == {n \in 1..Len(dRequested) : dRequested[n].run = run}

RequestedFor(run, projectName) ==
    {n \in RequestedInRun(run) : dRequested[n].project_name = projectName}

\* C8: in one dispatcher invocation without force_processing, the workers
\* invoked over all projects are at most max(REWARD_ASSIGNMENT_WORKER_COUNT, 1).
C8_TotalBounded ==
    \A n \in 1..Len(dRequested) :
        ~dRequested[n].force =>
            Cardinality(RequestedInRun(dRequested[n].run)) <= Max(dWorkerCount, 1)

\* C8 as the code has it: in one dispatcher invocation without
\* force_processing, the workers invoked for each project are at most
\* max(REWARD_ASSIGNMENT_WORKER_COUNT, 1).
C8_BoundedPerProject ==
    \A n \in 1..Len(dRequested) :
        ~dRequested[n].force =>
            Cardinality(RequestedFor(dRequested[n].run, dRequested[n].project_name))
                <= Max(dWorkerCount, 1)

\* A first invocation without force_processing has ended; a project with
\* more never-processed stable incoming shards than workers got exactly its
\* workers, and the invocation as a whole more than that.
C8_Witness ==
    /\ dResults = <<"done">>
    /\ dpc = "idle"
    /\ ~dForce[1]
    /\ Cardinality(RequestedInRun(1)) > Max(dWorkerCount, 1)
    /\ \E projectName \in ProjectNames :
          /\ Cardinality({n \in 1..Len(dShape[projectName].incoming) :
                /\ dShape[projectName].class[dShape[projectName].incoming[n]] = "stable"
                /\ dShape[projectName].incoming[n] \notin DOMAIN dShape[projectName].lastProcessed})
                > Max(dWorkerCount, 1)
          /\ Cardinality(RequestedFor(1, projectName)) = Max(dWorkerCount, 1)

ClassOf(request) == dShape[request.project_name].class[request.shard_id]

\* C9: every shard a worker is invoked for is in the stable set, for every
\* dispatch event.
C9_OnlyStable ==
    \A n \in 1..Len(dRequested) : ClassOf(dRequested[n]) = "stable"

\* C9 as the code has it: every shard a worker is invoked for by an
\* invocation without force_processing is in the stable set.
C9_OnlyStableUnlessForced ==
    \A n \in 1..Len(dRequested) :
        ~dRequested[n].force => ClassOf(dRequested[n]) = "stable"

\* A first invocation without force_processing has ended; a project had a
\* never-processed incoming shard that is resharding, first in line, and a
\* stable one: the worker went to the stable one.
C9_Witness ==
    /\ dResults = <<"done">>
    /\ dpc = "idle"
    /\ ~dForce[1]
    /\ \E projectName \in ProjectNames :
          \E a, b \in SeqToSet(dShape[projectName].incoming) :
             /\ dShape[projectName].class[a] # "stable"
             /\ a \notin DOMAIN dShape[projectName].lastProcessed
             /\ dShape[projectName].class[b] = "stable"
             /\ \A n \in RequestedFor(1, projectName) : dRequested[n].shard_id # a
             /\ \E n \in RequestedFor(1, projectName) : dRequested[n].shard_id = b

\* The updateShardLastProcessed call of a worker event is still in flight.
MarkPending(payload) ==
    \E mark \in dPendingMarks :
        /\ mark.run = payload.run
        /\ mark.project_name = payload.project_name
        /\ mark.shard_id = payload.shard_id

\* The registry holds a last-processed time written by a dispatcher
\* invocation for the shard of a worker event.
MarkWritten(payload) ==
    /\ payload.shard_id \in DOMAIN registry[payload.project_name]
    /\ registry[payload.project_name][payload.shard_id] \in Times

\* C14: whenever a worker event with last_processed_timestamp_updated true
\* is enqueued, the registry already holds the last-processed time the
\* dispatching invocation wrote for its project and shard.
C14_MarkedBeforeEnqueued ==
    \A payload \in dEnqueued :
        payload.last_processed_timestamp_updated =>
            ~MarkPending(payload) /\ MarkWritten(payload)

\* The case of C14: a worker event is enqueued and the mark of its shard
\* has completed.
C14_Case ==
    \E payload \in dEnqueued :
        payload.last_processed_timestamp_updated /\ ~MarkPending(payload)

\* The incoming shards of a project that are stable and past their
\* cool-down at time now, by the dates the call was given.
Eligible(projectName, lastProcessedDates, now) ==
    {v \in SeqToSet(dShape[projectName].incoming) :
        /\ dShape[projectName].class[v] = "stable"
        /\ now - LastProcessedOf(lastProcessedDates, v)
              >= ReprocessShardWaitTimeInSeconds * 1000}

\* The shards a step invokes a worker for.
Granted == {dRequested'[n].shard_id : n \in (Len(dRequested) + 1)..Len(dRequested')}

\* The step is the callback of dispatchAssignRewardsIfNecessary for the
\* project in the invocation.
Dispatching(run, projectName) ==
    /\ run \in DOMAIN dProject'
    /\ dProject[run][projectName].stage = "listing"
    /\ dProject'[run][projectName].stage = "dispatched"

\* C15: in one call of dispatchAssignRewardsIfNecessary without
\* force_processing the workers go to the incoming shards that are stable
\* and past their cool-down, in ascending order of last-processed time
\* (never-processed shards first): a shard that is granted a worker is not
\* younger than one that is left out, and skipped shards use no worker
\* slot, so as many workers are granted as there are slots and such shards.
C15_OldestFirst ==
    [][\A run \in Runs : \A projectName \in ProjectNames :
          (Dispatching(run, projectName) /\ ~dForce[run]) =>
             LET dates == dProject[run][projectName].dates
                 eligible == Eligible(projectName, dates, dProject[run][projectName].now)
             IN /\ Granted \subseteq eligible
                /\ Cardinality(Granted) = Min({Max(dWorkerCount, 1), Cardinality(eligible)})
                /\ \A a \in Granted : \A b \in eligible \ Granted :
                      LastProcessedOf(dates, a) <= LastProcessedOf(dates, b)]_vars

\* Two stable incoming shards past their cool-down, the one listed first
\* processed later than the other, a parent in no case, and one worker: it
\* went to the shard processed longer ago.
C15_Witness ==
    /\ dpc = "running"
    /\ Len(dProject) = 1
    /\ ~dForce[1]
    /\ Max(dWorkerCount, 1) = 1
    /\ \E projectName \in ProjectNames :
          LET shape == dShape[projectName]
              chain == dProject[1][projectName]
          IN /\ chain.stage = "dispatched"
             /\ Len(shape.incoming) = 2
             /\ \A n \in 1..2 :
                   /\ shape.class[shape.incoming[n]] = "stable"
                   /\ shape.incoming[n] \in DOMAIN chain.dates
                   /\ chain.now - chain.dates[shape.incoming[n]]
                         >= ReprocessShardWaitTimeInSeconds * 1000
             /\ chain.dates[shape.incoming[1]] > chain.dates[shape.incoming[2]]
             /\ \E n \in RequestedFor(1, projectName) :
                   dRequested[n].shard_id = shape.incoming[2]
             /\ \A n \in RequestedFor(1, projectName) :
                   dRequested[n].shard_id # shape.incoming[1]

\* A last-processed write made at the time of a worker invocation or after
\* it is in the registry.
GrantMarked(grant) ==
    /\ grant.shard_id \in DOMAIN registry[grant.project_name]
    /\ registry[grant.project_name][grant.shard_id] >= grant.time

\* C13: without force_processing and with invocations that do not overlap,
\* a worker invocation for a project and shard comes at least
\* REWARD_ASSIGNMENT_REPROCESS_SHARD_WAIT_TIME_IN_SECONDS after every
\* earlier one for the same project and shard whose last-processed write
\* was made: within the cool-down the shard is skipped.  The time of a
\* worker invocation is the time of the callback that makes it.
C13_CoolDownBetweenDispatches ==
    [][\A run \in Runs : \A projectName \in ProjectNames :
          Dispatching(run, projectName) =>
             \A v \in Granted : \A grant \in dGrants :
                (/\ grant.project_name = projectName
                 /\ grant.shard_id = v
                 /\ GrantMarked(grant))
                => clock - grant.time >= ReprocessShardWaitTimeInSeconds * 1000]_vars

\* A shard got a worker twice, exactly one cool-down apart; the
\* last-processed write of the second was made one cool-down after its
\* worker invocation, and an invocation that took its time then, a
\* cool-down after the worker invocation and inside the cool-down of the
\* write, has asked for no worker.
C13_Witness ==
    /\ dpc = "running"
    /\ dPendingMarks = {}
    /\ \E first, second \in dGrants :
          /\ first.project_name = second.project_name
          /\ first.shard_id = second.shard_id
          /\ second.time - first.time = ReprocessShardWaitTimeInSeconds * 1000
          /\ dShape[second.project_name].class[second.shard_id] = "stable"
          /\ second.shard_id \in DOMAIN registry[second.project_name]
          /\ registry[second.project_name][second.shard_id]
                = second.time + ReprocessShardWaitTimeInSeconds * 1000
          /\ dProject[Len(dProject)][second.project_name].stage = "dispatched"
          /\ dProject[Len(dProject)][second.project_name].now
                = registry[second.project_name][second.shard_id]
          /\ RequestedFor(Len(dProject), second.project_name) = {}

\* A shard of a project is stable and has an incoming marker.
StableIncoming(projectName, v) ==
    /\ v \in SeqToSet(dShape[projectName].incoming)
    /\ dShape[projectName].class[v] = "stable"

WorkerGranted(projectName, v) ==
    \E grant \in dGrants : grant.project_name = projectName /\ grant.shard_id = v

\* The latest invocation has resolved: every call it made has succeeded.
InvocationResolved ==
    /\ dpc = "idle"
    /\ dResults # <<>>
    /\ dResults[Len(dResults)] = "done"

\* Invocations are repeated for ever, one after the other, and the calls
\* they make return: again and again one is running and again and again it
\* has settled.
InvocationsForEver == ([]<>(dpc = "running")) /\ ([]<>(dpc = "idle"))

\* Time advances, up to the last time of the model.
TimeAdvances == []<>(clock = LastTime)

====
